---- MODULE Spec2Model ----
(***************************************************************************)
(* State-machine model of rust-pact's cross-chain transfer orchestrator    *)
(* (src/src/tools.rs: crosschain_transfer_full and poll_create_spv) and of *)
(* the network client it drives (src/src/fetch.rs, src/src/utils.rs).      *)
(*                                                                         *)
(* One behaviour is one call of crosschain_transfer_full.  The network is  *)
(* the environment: every response is chosen nondeterministically from a   *)
(* small set of JSON shapes, a call may also fail at transport level, and  *)
(* every call takes a nondeterministic latency.  Time is counted in ticks  *)
(* of SystemTime; the clock is assumed monotonic.                          *)
(***************************************************************************)
EXTENDS Integers, Sequences, FiniteSets, TLC

(***************************************************************************)
(* Bounds of the model.                                                    *)
(***************************************************************************)
\* attempt budgets range over 0..MaxAttempts (0 = infinite)
MaxAttempts == 2
\* max_total_time_ms ranges over 0..MaxTimeout
MaxTimeout == 2
\* attach_sig takes 0..MaxKeyPairs keypairs; a signature batch has 1..MaxKeyPairs entries
MaxKeyPairs == 2
\* a payload, or an array of commands, handed to fetch holds 0..MaxCmds commands
MaxCmds == 3

\* A counter that the code compares with a budget saturates one above the
\* budget, and a clock saturates at the timeout it is compared with, so that
\* every comparison of the code keeps its outcome.
CounterCap(budget) == budget + 1

AttemptValues == 0..MaxAttempts
TimeoutValues == 0..MaxTimeout
\* XCHAIN_MAX_TOTAL_TIME_MS as poll_create_spv reads it: unset (0) or set
EnvTimeoutValues == {0, MaxTimeout}
\* interval_*_ms values (ticks)
IntervalValues == {0, 1}
\* post_confirm_wait_ms values (ticks)
PostConfirmValues == {0, 1}
\* the time one network call takes (ticks)
LatencyValues == {0, 1}
NetworkIds == {"testnet04", "devnet"}
SourceChain == "1"
TargetChain == "2"

Min(a, b) == IF a <= b THEN a ELSE b

(***************************************************************************)
(* serde_json values.  A Value is a tagged tuple; Option<T> is a sequence  *)
(* of length 0 (None) or 1 (Some).                                         *)
(***************************************************************************)
None == <<>>
EmptyText == <<>>
Some(x) == <<x>>
IsSome(o) == Len(o) = 1
Unwrap(o) == o[1]

JStr(s) == <<"str", s>>
JNull == <<"null">>
JObj(f) == <<"obj", f>>
JArr(s) == <<"arr", s>>
EmptyFields == [k \in {} |-> JNull]

\* Value::get(key): Some(member) for an object that has the key
Get(v, k) == IF v[1] = "obj" /\ k \in DOMAIN v[2] THEN Some(v[2][k]) ELSE None
\* Option::and_then(|x| x.get(key))
AndGet(o, k) == IF IsSome(o) THEN Get(Unwrap(o), k) ELSE None
\* Option::and_then(|x| x.as_str())
AndAsStr(o) == IF IsSome(o) /\ Unwrap(o)[1] = "str" THEN Some(Unwrap(o)[2]) ELSE None
\* Option::and_then(|x| x.as_array()).and_then(|arr| arr.get(0))
AndFirst(o) ==
    IF IsSome(o) /\ Unwrap(o)[1] = "arr" /\ Len(Unwrap(o)[2]) > 0
    THEN Some(Unwrap(o)[2][1]) ELSE None

\* artifacts[key] = value on the JSON object artifacts
Put(obj, k, v) == [x \in (DOMAIN obj) \cup {k} |-> IF x = k THEN v ELSE obj[x]]


(***************************************************************************)
(* Text.  A Rust String that the code searches is a sequence of fragments; *)
(* str::contains and str::to_lowercase are computed fragment by fragment.  *)
(***************************************************************************)
NotReachable == "SPV target not reachable"
HashNotFound == "Transaction hash not found"
\* the fragments that hold a ' ' character
SpacedFragments == {" ", ": ", NotReachable, HashNotFound, "pact completed",
                    "Insufficient funds", "Bad Request"}
\* str::contains(needle) for a needle that is one fragment
Contains(text, needle) == \E i \in 1..Len(text) : text[i] = needle
\* str::contains(' ')
ContainsSpace(text) == \E i \in 1..Len(text) : text[i] \in SpacedFragments
\* str::to_lowercase of one fragment
LowerFragment(f) ==
    CASE f = "resumePact" -> "resumepact"
      [] f = "Pact Completed" -> "pact completed"
      [] OTHER -> f
\* str::to_lowercase
ToLowercase(text) == [i \in 1..Len(text) |-> LowerFragment(text[i])]

ProofReady == <<"cHJvb2YtZGF0YQ">>
\* a payload that ends with a line feed
ProofWithNewline == <<"cHJvb2YtZGF0YQ", "\n">>

(***************************************************************************)
(* What the network can answer.  parse_res turns every HTTP response into  *)
(* a Value: the body's JSON, or an error object when the body is no JSON.  *)
(***************************************************************************)
\* utils::parse_res on a body that is not JSON
ParseError(body) ==
    JObj([error |-> JStr("Failed to parse response as JSON"),
          status |-> <<"num", 400>>,
          body |-> JStr(body)])

ResultOf(status) == JObj([result |-> JObj([status |-> JStr(status)])])
FailedResult(message) ==
    JObj([result |-> JObj([status |-> JStr("failure"),
                           error |-> JObj([message |-> JStr(message)])])])

\* answers of /api/v1/send
SendResponses(key) ==
    { JObj([requestKeys |-> JArr(<<JStr(key)>>)]),
      JObj([requestKeys |-> JArr(<<>>)]),
      JObj([requestKeys |-> JArr(<<JNull>>)]),
      ParseError(<<"Bad Request">>) }

\* answers of /api/v1/poll for one request key
PollResponses(key) ==
    { JObj(EmptyFields),
      JObj(key :> ResultOf("success")),
      JObj(key :> FailedResult(<<"Insufficient funds">>)),
      JObj(key :> FailedResult(<<"resumePact", ": ", "pact completed">>)),
      JObj(key :> FailedResult(<<"resumePact", ": ", "pact not found">>)),
      JObj(key :> JNull),
      ParseError(<<"Bad Request">>) }

\* answers of /api/v1/listen
ListenResponses ==
    { JObj([continuation |-> JObj([pactId |-> JStr("pact-1")]),
            result |-> JObj([status |-> JStr("success")])]),
      JObj([continuation |-> JObj([pactId |-> JStr("pact-1")]),
            result |-> JObj([status |-> JStr("failure")])]),
      JObj([continuation |-> JNull,
            result |-> JObj([status |-> JStr("success")])]),
      JObj([continuation |-> JObj([pactId |-> JStr("pact-1")])]),
      ParseError(<<"Bad Request">>) }

\* answers of /spv
SpvResponses ==
    { JStr(ProofReady),
      JStr(ProofWithNewline),
      JObj([proof |-> JStr(ProofReady)]),
      ParseError(ProofReady),
      JStr(<<>>),
      JStr(<<NotReachable>>),
      ParseError(<<HashNotFound, ": ", "rk">>),
      ParseError(<<"pending", " ", "confirmation">>),
      JObj([proof |-> JNull]),
      JObj(EmptyFields) }


(***************************************************************************)
(* Diagnostics: the strings written under artifacts["error"].  A formatted *)
(* string is the sequence of its literal pieces and formatted arguments.   *)
(***************************************************************************)
Stages == {"init", "spv", "final"}
Causes == {"timeout", "attempts"}

\* faulty variant: the initiation loop reports its spent attempt budget with the text
\* of its timeout
ExhaustionMessageShared(stage, cause, v) ==
    CASE stage = "init" ->
            <<"timeout after ", v, "ms waiting for initiation tx">>
      [] stage = "spv" /\ cause = "timeout" ->
            <<"timeout after ", v, "ms obtaining SPV proof">>
      [] stage = "spv" /\ cause = "attempts" ->
            <<"Max attempts (", v, ") reached waiting for SPV proof">>
      [] stage = "final" /\ cause = "timeout" ->
            <<"timeout after ", v, "ms waiting for final completion">>
      [] stage = "final" /\ cause = "attempts" ->
            <<"max attempts (", v, ") reached waiting for final completion">>

\* the format! templates of the two exhaustion conditions of each polling stage
ExhaustionMessage(stage, cause, v) ==
    CASE stage = "init" /\ cause = "timeout" ->
            <<"timeout after ", v, "ms waiting for initiation tx">>
      [] stage = "init" /\ cause = "attempts" ->
            <<"max attempts (", v, ") reached waiting for initiation tx">>
      [] stage = "spv" /\ cause = "timeout" ->
            <<"timeout after ", v, "ms obtaining SPV proof">>
      [] stage = "spv" /\ cause = "attempts" ->
            <<"Max attempts (", v, ") reached waiting for SPV proof">>
      [] stage = "final" /\ cause = "timeout" ->
            <<"timeout after ", v, "ms waiting for final completion">>
      [] stage = "final" /\ cause = "attempts" ->
            <<"max attempts (", v, ") reached waiting for final completion">>

MissingRequestKeyInit == <<"missing request key from initiation">>
MissingPactId == <<"missing pactId in init listen result">>
MissingStatus == <<"missing status in init listen result">>
MissingRequestKeyComplete == <<"missing request key from completion step">>
FinalFailedMessage(final_status, msg) ==
    <<"final transaction failed with status: ", final_status, ", error: ", msg>>

(***************************************************************************)
(* get_api_host: None models the panic on an unsupported network id.       *)
(***************************************************************************)
GetApiHost(net, chain_id) ==
    CASE net = "mainnet01" ->
            Some(<<"https://api.chainweb.com/chainweb/0.0/mainnet01/chain/", chain_id, "/pact">>)
      [] net = "testnet04" ->
            Some(<<"https://api.testnet.chainweb.com/chainweb/0.0/testnet04/chain/", chain_id, "/pact">>)
      [] OTHER -> None

(***************************************************************************)
(* State.                                                                  *)
(***************************************************************************)
VARIABLES
    pc,            \* where crosschain_transfer_full stands
    cfg,           \* the CrossChainConfig in force
    network_id,    \* the network_id argument
    envMaxTotal,   \* XCHAIN_MAX_TOTAL_TIME_MS as poll_create_spv parses it (0: unset)
    key_pair,      \* the key_pair argument
    artifacts,     \* the JSON object that is returned
    attempt,       \* the attempt counter of the running polling loop
    elapsed,       \* start_time.elapsed() of crosschain_transfer_full
    spv_elapsed,   \* start_time.elapsed() of poll_create_spv
    rk,            \* Option: request key of the initiation
    pact_id,       \* Option: pact id taken from the listen result
    rk_complete,   \* Option: request key of the completion
    lastReq,       \* the request in flight, or the last one answered
    calls,         \* history: the kinds of network call issued, repeats folded
    nReq,          \* history: number of requests issued, per kind of call
    ready,         \* history: per polling stage, whether an answer reported the
                   \*          awaited outcome (success, or an accepted proof)
    obtained,      \* history: every response and extracted value the transfer got
    failure,       \* history: the failing return taken, <<stage, cause>>
    wellFormed,    \* history: no submit or listen answer lacked an expected field
    spc,           \* where the signing of one command stands
    cmd_string,    \* the canonical command string (msg of attach_sig, cmd of mk_single_cmd)
    key_pairs,     \* kp_array of attach_sig
    sigs,          \* Option: the signature batch (None: attach_sig panicked)
    signed,        \* Option: the value of mk_single_cmd (None: it panicked)
    origin,        \* who built the batch: attach_sig, or a caller of mk_single_cmd
    verified,      \* Option: one sign / verify round trip
    send_cmd,      \* Option: the command JSON handed to make_prepare_cmd
    token_address, \* the token_address argument of token_transfer
    single_chain_id, \* the chain_id argument of token_transfer
    result,        \* Option: the value token_transfer returned
    parked,        \* Option: the frame of a second transfer that is not scheduled
    turn           \* which of two concurrent transfers is scheduled

vars == <<pc, cfg, network_id, envMaxTotal, key_pair, artifacts, attempt, elapsed,
          spv_elapsed, rk, pact_id, rk_complete, lastReq, calls, nReq, ready, obtained,
          failure, wellFormed, spc, cmd_string, key_pairs, sigs, signed, origin, verified,
          send_cmd, token_address, single_chain_id, result, parked, turn>>

\* the state of the signing subsystem, which holds no state between calls
signing == <<spc, cmd_string, key_pairs, sigs, signed, origin, verified, send_cmd>>
SigningIdle ==
    /\ spc = "idle"
    /\ cmd_string = EmptyText
    /\ key_pairs = <<>>
    /\ sigs = None
    /\ signed = None
    /\ origin = "none"
    /\ verified = None
    /\ send_cmd = None

\* the state of a single-chain transfer
single == <<token_address, single_chain_id, result>>
SingleIdle ==
    /\ token_address = "coin"
    /\ single_chain_id = SourceChain
    /\ result = None

\* the frame of one call of crosschain_transfer_full: its arguments, its
\* locals and those of the functions it calls, and what the model records
\* about it; the process environment is not part of it
frame == <<pc, cfg, network_id, key_pair, artifacts, attempt, elapsed, spv_elapsed,
           rk, pact_id, rk_complete, lastReq, calls, nReq, ready, obtained,
           failure, wellFormed>>
\* no second transfer runs
others == <<parked, turn>>
Alone ==
    /\ parked = None
    /\ turn = 1

inputs == <<cfg, network_id, envMaxTotal, key_pair>>
locals == <<rk, pact_id, rk_complete>>
history == <<ready, obtained, failure, wellFormed>>

CallKinds == {"send", "poll", "listen", "spv"} \X {SourceChain, TargetChain}

\* The CrossChainConfig values of the model.  The three intervals are drawn
\* together (as in CrossChainConfig::default, where all three are 5000 ms).
Configs ==
    { c \in [attempts_tx : AttemptValues, interval_tx_ms : IntervalValues,
              post_confirm_wait_ms : PostConfirmValues,
              attempts_spv : AttemptValues, interval_spv_ms : IntervalValues,
              attempts_final : AttemptValues, interval_final_ms : IntervalValues,
              max_total_time_ms : TimeoutValues] :
        /\ c.interval_spv_ms = c.interval_tx_ms
        /\ c.interval_final_ms = c.interval_tx_ms }

\* the KeyPair values a caller passes: a signing key, and a key pair whose
\* secret is the empty string (a role that only names its public key)
KeyPairInputs ==
    { [public_key |-> "p1", secret_key |-> "s1", clist |-> None],
      [public_key |-> "p1", secret_key |-> "", clist |-> None] }

\* crosschain_transfer_full up to "let start_time = SystemTime::now()"
Init ==
    /\ pc = "start"
    /\ cfg \in Configs
    /\ network_id \in NetworkIds
    /\ envMaxTotal \in EnvTimeoutValues
    /\ key_pair \in KeyPairInputs
    /\ artifacts = [status |-> JStr("starting")]
    /\ attempt = 0
    /\ elapsed = 0
    /\ spv_elapsed = 0
    /\ rk = None
    /\ pact_id = None
    /\ rk_complete = None
    /\ lastReq = [op |-> "none"]
    /\ calls = <<>>
    /\ nReq = [k \in CallKinds |-> 0]
    /\ ready = [s \in Stages |-> FALSE]
    /\ obtained = EmptyFields
    /\ failure = None
    /\ wellFormed = TRUE
    /\ SigningIdle
    /\ SingleIdle
    /\ Alone

(***************************************************************************)
(* Helpers of the actions.                                                 *)
(***************************************************************************)
\* should_timeout(&start_time)
ShouldTimeout ==
    IF cfg.max_total_time_ms = 0 THEN FALSE
    ELSE elapsed >= cfg.max_total_time_ms

\* the global-timeout check of poll_create_spv
SpvShouldTimeout == envMaxTotal > 0 /\ spv_elapsed >= envMaxTotal

\* faulty variant: the attempt test gives up one attempt early
AttemptsExhaustedEarly(budget) == budget > 0 /\ attempt + 1 >= budget

\* faulty variant: the attempt test lets one more poll pass
AttemptsExhaustedLate(budget) == budget > 0 /\ attempt > budget

\* "cfg.attempts_x > 0 && attempt >= cfg.attempts_x"
AttemptsExhausted(budget) == budget > 0 /\ attempt >= budget

\* a reqwest call leaves: the request is in flight
Issue(op, chain_id, body, budget) ==
    /\ lastReq' = [op |-> op, host |-> Unwrap(GetApiHost(network_id, chain_id)),
                   chain |-> chain_id, body |-> body]
    /\ calls' = IF Len(calls) > 0 /\ calls[Len(calls)] = <<op, chain_id>>
                THEN calls ELSE Append(calls, <<op, chain_id>>)
    /\ nReq' = [nReq EXCEPT ![<<op, chain_id>>] = Min(@ + 1, CounterCap(budget))]

NoIssue == UNCHANGED <<lastReq, calls, nReq>>

\* time passes: d ticks
Pass(d) == elapsed' = Min(elapsed + d, cfg.max_total_time_ms)
PassSpv(d) == spv_elapsed' = Min(spv_elapsed + d, envMaxTotal)

\* a network call that fails at transport level (reqwest's send() is Err)
TransportFailure == <<"transport failure">>
Answers(responses) == responses \cup {TransportFailure}

\* faulty variant: a failing return that reports the error alone
FailWithErrorOnly(base, msg, stage, cause) ==
    /\ artifacts' = Put([status |-> base["status"]], "error", JStr(msg))
    /\ failure' = Some(<<stage, cause>>)
    /\ pc' = "done"

\* faulty variant: a failing return that also overwrites "status"
FailMarkingStatus(base, msg, stage, cause) ==
    /\ artifacts' = Put(Put(base, "error", JStr(msg)), "status", JStr("failed"))
    /\ failure' = Some(<<stage, cause>>)
    /\ pc' = "done"

\* faulty variant: a failure of the proof stage starts the transfer over
FailAndRetry(base, msg, stage, cause) ==
    /\ artifacts' = Put(base, "error", JStr(msg))
    /\ failure' = Some(<<stage, cause>>)
    /\ pc' = IF stage = "spv" THEN "start" ELSE "done"

\* "artifacts["error"] = json!(msg); return artifacts;"
Fail(base, msg, stage, cause) ==
    /\ artifacts' = Put(base, "error", JStr(msg))
    /\ failure' = Some(<<stage, cause>>)
    /\ pc' = "done"

\* .expect("Failed to send request") / panic!("Unsupported network_id")
Panic ==
    /\ pc' = "panicked"
    /\ UNCHANGED <<artifacts, attempt, spv_elapsed, locals, lastReq, calls, nReq, history>>


(***************************************************************************)
(* What the network reported, told from the answer alone (for the history  *)
(* variables; the orchestrator's own tests follow below).                  *)
(***************************************************************************)
ReportsSuccess(res, key) == Get(res, key) = Some(ResultOf("success"))
CarriesProof(res) ==
    res \in {JStr(ProofReady), JStr(ProofWithNewline),
             JObj([proof |-> JStr(ProofReady)]), ParseError(ProofReady)}

(***************************************************************************)
(* Extraction of the fields the orchestrator reads from a response.        *)
(***************************************************************************)
\* faulty variant: the first entry is taken whatever its type (to_string for as_str)
RequestKeyOfAnyEntry(res) ==
    IF IsSome(AndFirst(Get(res, "requestKeys"))) THEN Some("rk-any") ELSE None

\* res.get("requestKeys").and_then(as_array).and_then(|arr| arr.get(0)).and_then(as_str)
RequestKeyOf(res) == AndAsStr(AndFirst(Get(res, "requestKeys")))

\* faulty variant: the initiation loop leaves on any entry for the key, as the final loop does
InitConfirmedAnyEntry(res, key) == IsSome(Get(res, key))

\* faulty variant: any status string under the key ends the loop
InitConfirmedAnyStatus(res, key) ==
    IsSome(AndAsStr(AndGet(AndGet(Get(res, key), "result"), "status")))

\* the exit test of the initiation poll loop
InitConfirmed(res, key) ==
    LET entry == Get(res, key) IN
    /\ IsSome(entry)
    /\ Unwrap(entry)[1] = "obj"
    /\ AndAsStr(AndGet(AndGet(entry, "result"), "status")) = Some("success")

\* listen_result.get("continuation").and_then(get("pactId")).and_then(as_str)
PactIdOf(res) == AndAsStr(AndGet(Get(res, "continuation"), "pactId"))
\* faulty variant: an absent status defaults to "unknown", as in the verbose print
StatusOfOrUnknown(res) ==
    IF IsSome(AndAsStr(AndGet(Get(res, "result"), "status")))
    THEN AndAsStr(AndGet(Get(res, "result"), "status")) ELSE Some("unknown")

\* listen_result.get("result").and_then(get("status")).and_then(as_str)
StatusOf(res) == AndAsStr(AndGet(Get(res, "result"), "status"))

\* proof_opt of poll_create_spv: "proof", or else "body", or else the string itself
ProofOpt(res) ==
    LET fromProof == AndAsStr(Get(res, "proof"))
        fromBody == AndAsStr(Get(res, "body"))
    IN IF IsSome(fromProof) THEN fromProof
       ELSE IF IsSome(fromBody) THEN fromBody
       ELSE AndAsStr(Some(res))

\* not_ready of poll_create_spv
NotReady(proof) ==
    \/ Contains(proof, NotReachable)
    \/ Contains(proof, HashNotFound)
    \/ ContainsSpace(proof)

\* "if let Some(proof) = proof_opt { if !not_ready && !proof.is_empty() { return Ok(proof) } }"
ProofAccepted(res) ==
    /\ IsSome(ProofOpt(res))
    /\ ~NotReady(Unwrap(ProofOpt(res)))
    /\ Unwrap(ProofOpt(res)) # <<>>

\* faulty variant: the attempt test of poll_create_spv allows one request more
SpvAttemptsExhaustedLate(max_attempts) == max_attempts > 0 /\ attempt > max_attempts

\* "max_attempts > 0 && attempt >= max_attempts" of poll_create_spv
SpvAttemptsExhausted(max_attempts) == max_attempts > 0 /\ attempt >= max_attempts

\* max_attempts of poll_create_spv, as crosschain_transfer_full passes it:
\* (if cfg.attempts_spv > 0 { Some(cfg.attempts_spv) } else { None }).unwrap_or(0)
SpvMaxAttempts ==
    LET passed == IF cfg.attempts_spv > 0 THEN Some(cfg.attempts_spv) ELSE None
    IN IF IsSome(passed) THEN Unwrap(passed) ELSE 0

\* the exit test of the final poll loop: res.get(&rk_complete).is_some()
FinalFound(res, key) == IsSome(Get(res, key))

\* final_status of step 8
FinalStatusOf(res, key) == AndAsStr(AndGet(AndGet(Get(res, key), "result"), "status"))

\* maybe_err_msg of step 8
MaybeErrMsg(res, key) ==
    LET m == AndAsStr(AndGet(AndGet(AndGet(Get(res, key), "result"), "error"), "message"))
    IN IF IsSome(m) THEN Unwrap(m) ELSE <<>>

\* step 8 lets the final result pass
FinalAccepted(res, key) ==
    \/ FinalStatusOf(res, key) = Some("success")
    \/ ~( /\ ~Contains(ToLowercase(MaybeErrMsg(res, key)), "pact completed")
          /\ ~Contains(ToLowercase(MaybeErrMsg(res, key)), "resumepact") )


(***************************************************************************)
(* The command-signing subsystem: crypto.rs (hash_bin, sign, verify,       *)
(* sign_map, attach_sig), api.rs (filter_sig, mk_single_cmd) and utils.rs  *)
(* (pull_sig, pull_check_hashs).  A digest, an encoding and a signature    *)
(* are tagged tuples: blake2b is taken collision free and Ed25519 ideal (a *)
(* signature verifies under a public key over some bytes exactly when the  *)
(* matching secret key signed these bytes).  An Option result of None      *)
(* models a panic of the function.                                         *)
(***************************************************************************)
\* canonical command strings (a string is a sequence of fragments)
Msgs == {<<"cmd-a">>, <<"cmd-b">>}
ValidSecrets == {"s1", "s2"}
\* secretKey strings: two keys, and the empty string
SecretValues == ValidSecrets \cup {""}
Publics == {"p1", "p2"}
\* PublicKey::from(&secret_key)
PublicOf(secret) == CASE secret = "s1" -> "p1" [] secret = "s2" -> "p2"

HashBin(msg) == <<"blake2b", msg>>
B64UrlEncodedHash(bin) == <<"b64url", bin>>
B64UrlDecode(text) == text[2]
BinToHex(bin) == <<"hex", bin>>
HexToBin(hex) == hex[2]

\* Keypair::sign / PublicKey::verify of ed25519_dalek
Ed25519Sign(secret, bytes) == <<"ed25519", PublicOf(secret), bytes>>
Ed25519Verify(public, bytes, sig) == sig[2] = public /\ sig[3] = bytes

\* hex::decode(secret).unwrap(), SecretKey::from_bytes(..).unwrap()
SecretKeyFromHex(secret) == IF secret \in ValidSecrets THEN Some(secret) ELSE None

\* crypto::sign: (hash_b64, sig_hex), for a secret that decodes
Sign(msg, secret) ==
    << B64UrlEncodedHash(HashBin(msg)),
       BinToHex(Ed25519Sign(Unwrap(SecretKeyFromHex(secret)), HashBin(msg))) >>

\* faulty variant: the signature is accepted under any public key
VerifyAnyKey(msg, public_key, signature) ==
    HexToBin(signature)[3] = HashBin(msg)

\* crypto::verify
Verify(msg, public_key, signature) ==
    Ed25519Verify(public_key, HashBin(msg), HexToBin(signature))

\* crypto::sign_map
SignMap(msg, kp) ==
    LET hash_b64 == B64UrlEncodedHash(HashBin(msg))
        pk == AndAsStr(Get(kp, "publicKey"))
        public_key == IF IsSome(pk) THEN Unwrap(pk) ELSE ""
        secret == AndAsStr(Get(kp, "secretKey"))
    IN IF IsSome(secret)
       THEN IF SecretKeyFromHex(Unwrap(secret)) = None THEN None
            ELSE Some(JObj([hash |-> JStr(hash_b64),
                            sig |-> JStr(Sign(msg, Unwrap(secret))[2]),
                            publicKey |-> JStr(public_key)]))
       ELSE Some(JObj([hash |-> JStr(hash_b64), sig |-> JNull,
                       publicKey |-> JStr(public_key)]))

\* faulty variant: no placeholder entry for an empty keypair array
AttachSigNoPlaceholder(msg, kp_array) ==
    IF \E i \in 1..Len(kp_array) : SignMap(msg, kp_array[i]) = None THEN None
    ELSE Some([i \in 1..Len(kp_array) |-> Unwrap(SignMap(msg, kp_array[i]))])

\* faulty variant: the entries come out in reverse keypair order
AttachSigReversed(msg, kp_array) ==
    IF kp_array = <<>>
    THEN Some(<<JObj([hash |-> JStr(B64UrlEncodedHash(HashBin(msg))), sig |-> JNull])>>)
    ELSE IF \E i \in 1..Len(kp_array) : SignMap(msg, kp_array[i]) = None THEN None
    ELSE Some([i \in 1..Len(kp_array) |->
                 Unwrap(SignMap(msg, kp_array[Len(kp_array) + 1 - i]))])

\* crypto::attach_sig
AttachSig(msg, kp_array) ==
    IF kp_array = <<>>
    THEN Some(<<JObj([hash |-> JStr(B64UrlEncodedHash(HashBin(msg))), sig |-> JNull])>>)
    ELSE IF \E i \in 1..Len(kp_array) : SignMap(msg, kp_array[i]) = None THEN None
    ELSE Some([i \in 1..Len(kp_array) |-> Unwrap(SignMap(msg, kp_array[i]))])

\* api::filter_sig
FilterSig(sig) == IsSome(Get(sig, "sig"))
\* utils::pull_sig, on an entry that passed filter_sig
PullSig(sig) == JObj([sig |-> Unwrap(Get(sig, "sig"))])

\* sig.get("hash").and_then(|v| v.as_str()).unwrap_or("")
HashStrOf(sig) ==
    IF IsSome(AndAsStr(Get(sig, "hash"))) THEN Unwrap(AndAsStr(Get(sig, "hash")))
    ELSE EmptyText

\* faulty variant: only the entries that carry a "sig" are compared
PullCheckHashsOfSigned(batch) ==
    IF batch = <<>> THEN None
    ELSE IF \E i \in 1..Len(batch) :
                FilterSig(batch[i]) /\ HashStrOf(batch[i]) # HashStrOf(batch[1])
    THEN None
    ELSE Some(HashStrOf(batch[1]))

\* utils::pull_check_hashs: sigs[0] panics on an empty slice
PullCheckHashs(batch) ==
    IF batch = <<>> THEN None
    ELSE IF \E i \in 1..Len(batch) : HashStrOf(batch[i]) # HashStrOf(batch[1])
    THEN None
    ELSE Some(HashStrOf(batch[1]))

\* faulty variant: the command is serialised again for the output
MkSingleCmdReserialized(batch, command) ==
    LET kept == SelectSeq(batch, FilterSig) IN
    IF PullCheckHashs(batch) = None THEN None
    ELSE Some(JObj([hash |-> JStr(Unwrap(PullCheckHashs(batch))),
                    sigs |-> JArr([i \in 1..Len(kept) |-> PullSig(kept[i])]),
                    cmd |-> JStr(command \o <<"\n">>)]))

\* api::mk_single_cmd
MkSingleCmd(batch, command) ==
    LET kept == SelectSeq(batch, FilterSig) IN
    IF PullCheckHashs(batch) = None THEN None
    ELSE Some(JObj([hash |-> JStr(Unwrap(PullCheckHashs(batch))),
                    sigs |-> JArr([i \in 1..Len(kept) |-> PullSig(kept[i])]),
                    cmd |-> JStr(command)]))

(***************************************************************************)
(* Stage 1, Initiate: crosschain_transfer builds, signs and submits the    *)
(* transfer-crosschain command on the source chain.                        *)
(***************************************************************************)
\* chrono::Utc::now().to_rfc3339(), SystemTime::now(): a reading of the wall
\* clock, a value the model does not interpret
UtcNow == <<"now">>

\* lang::mk_meta as the transfers call it
MkMeta(sender, chain_id) ==
    [creationTime |-> UtcNow, ttl |-> 15000, gasLimit |-> 60000,
     chainId |-> chain_id, sender |-> sender]

\* the arguments of a transfer that the model keeps fixed (token_address is "coin")
SenderAccount == "k:sender"
ReceiverAccount == "k:receiver"
ReceiverPublicKey == "p2"
Amount == "1.5"

\* capability objects {name, args}
Cap(name, args) == JObj([name |-> JStr(name), args |-> JArr(args)])
GasCap == Cap("coin.GAS", <<>>)
TransferXChainCap ==
    Cap("coin.TRANSFER_XCHAIN",
        <<JStr(SenderAccount), JStr(ReceiverAccount), JStr(Amount), JStr(TargetChain)>>)
TransferCap ==
    Cap("coin.TRANSFER", <<JStr(SenderAccount), JStr(ReceiverAccount), JStr(Amount)>>)

\* "keyPairs": [json!({"publicKey": .., "secretKey": .., "clist": key_pair.clist})]
KeyPairsOf(kp, clist) ==
    <<JObj([publicKey |-> JStr(kp.public_key), secretKey |-> JStr(kp.secret_key),
            clist |-> JArr(clist)])>>

\* the command JSON of crosschain_transfer
InitiationCommand ==
    [pactCode |-> <<"coin.transfer-crosschain", SenderAccount, ReceiverAccount,
                    TargetChain, Amount>>,
     envData |-> ReceiverPublicKey,
     meta |-> MkMeta(<<"k:", key_pair.public_key>>, SourceChain),
     networkId |-> network_id,
     nonce |-> UtcNow,
     keyPairs |-> KeyPairsOf(key_pair, <<GasCap, TransferXChainCap>>)]

\* serde_json::to_string and from_str: the text of a value is one fragment
JsonToString(value) == << <<"json", value>> >>
JsonFromStr(text) == text[1][2]

\* fetch::value_to_keypair
ValueToKeypair(v) ==
    [public_key |-> IF IsSome(AndAsStr(Get(v, "publicKey")))
                    THEN Unwrap(AndAsStr(Get(v, "publicKey"))) ELSE "",
     secret_key |-> IF IsSome(AndAsStr(Get(v, "secretKey")))
                    THEN Unwrap(AndAsStr(Get(v, "secretKey"))) ELSE "",
     clist |-> IF IsSome(Get(v, "clist")) /\ Unwrap(Get(v, "clist"))[1] = "arr"
               THEN Some(Unwrap(Get(v, "clist"))[2]) ELSE None]

\* faulty variant: the signer entries lose their capability lists
MkSignerWithoutClist(kp) == JObj([pubKey |-> JStr(kp.public_key)])

\* faulty variant: the signer entry is the key pair as the caller gave it
MkSignerOfKeyPair(kp) ==
    JObj([pubKey |-> JStr(kp.public_key), secretKey |-> JStr(kp.secret_key)]
         @@ (IF IsSome(kp.clist) THEN [clist |-> JArr(Unwrap(kp.clist))]
             ELSE EmptyFields))

\* utils::mk_signer
MkSigner(kp) ==
    JObj([pubKey |-> JStr(kp.public_key)]
         @@ (IF IsSome(kp.clist) THEN [clist |-> JArr(Unwrap(kp.clist))]
             ELSE EmptyFields))

\* "json!({"publicKey": kp.public_key, "secretKey": kp.secret_key})"
KpJson(kp) == JObj([publicKey |-> JStr(kp.public_key), secretKey |-> JStr(kp.secret_key)])

\* Iterator::collect(): the Vec of an Option with its elements computed
Collected(o) == IF o = None THEN None ELSE Some(SubSeq(Unwrap(o), 1, Len(Unwrap(o))))

\* the tail shared by prepare_exec_cmd and prepare_cont_cmd: serialise, sign,
\* assemble; None when attach_sig or mk_single_cmd panics (the command is
\* serialised once and signed once: the one-element sets bind the text and
\* the batch as values)
SignAndAssemble(cmd_json, kps) ==
    LET Assemble(batch, text) ==
            IF batch = None THEN None ELSE MkSingleCmd(Unwrap(batch), text)
        Attached(text) ==
            Collected(AttachSig(text, [i \in 1..Len(kps) |-> KpJson(kps[i])]))
        made == UNION { { Assemble(batch, text) : batch \in {Attached(text)} } :
                        text \in {JsonToString(cmd_json)} }
    IN CHOOSE assembled \in made : TRUE

\* api::prepare_exec_cmd
PrepareExecCmd(pact_code, env_data, meta, network, nonce, kps) ==
    SignAndAssemble(
        [networkId |-> network,
         payload |-> [exec |-> [data |-> env_data, code |-> pact_code]],
         signers |-> [i \in 1..Len(kps) |-> MkSigner(kps[i])],
         meta |-> meta,
         nonce |-> IF IsSome(nonce) THEN Unwrap(nonce) ELSE UtcNow],
        kps)

\* api::prepare_cont_cmd
PrepareContCmd(pid, rollback, step, proof, env_data, meta, network, nonce, kps) ==
    SignAndAssemble(
        [networkId |-> network,
         payload |-> [cont |-> [proof |-> proof, pactId |-> pid, rollback |-> rollback,
                                step |-> step, data |-> env_data]],
         signers |-> [i \in 1..Len(kps) |-> MkSigner(kps[i])],
         meta |-> meta,
         nonce |-> IF IsSome(nonce) THEN Unwrap(nonce) ELSE UtcNow],
        kps)

\* cmd.get(key).and_then(..).map(..): an optional member of a command JSON
Member(cmd, key) == IF key \in DOMAIN cmd THEN Some(cmd[key]) ELSE None

\* fetch::make_prepare_cmd: the signed command, None when signing panics
\* (the one-element set binds the vector of key pairs as a value)
MakePrepareCmd(cmd) ==
    LET KeyPairs(c) ==
            IF "keyPairs" \in DOMAIN c
            THEN [i \in 1..Len(c.keyPairs) |-> ValueToKeypair(c.keyPairs[i])]
            ELSE <<>>
        Prepare(c, kps) ==
            IF "type" \in DOMAIN c /\ c.type = "cont"
            THEN PrepareContCmd(c.pactId, c.rollback, c.step, c.proof, c.envData,
                                c.meta, c.networkId, Member(c, "nonce"), kps)
            ELSE PrepareExecCmd(c.pactCode, c.envData, c.meta, c.networkId,
                                Member(c, "nonce"), kps)
        made == UNION { { Prepare(c, Unwrap(kps)) : kps \in {Collected(Some(KeyPairs(c)))} } :
                        c \in {cmd} }
    IN CHOOSE prepared \in made : TRUE

\* api::mk_public_send
MkPublicSend(cmds) == JObj([cmds |-> JArr(cmds)])

\* fetch::fetch_send_raw on one command: the body posted to /api/v1/send
SendBody(cmd) == MkPublicSend(<<Unwrap(MakePrepareCmd(cmd))>>)

Initiate ==
    /\ pc = "start"
    /\ IF \/ GetApiHost(network_id, SourceChain) = None
          \/ MakePrepareCmd(InitiationCommand) = None
       THEN Panic /\ UNCHANGED elapsed
       ELSE /\ Issue("send", SourceChain, SendBody(InitiationCommand), 1)
            /\ pc' = "init_send"
            /\ UNCHANGED <<artifacts, attempt, elapsed, spv_elapsed, locals, history>>
    /\ UNCHANGED <<inputs, signing, single, others>>

InitiateResponse ==
    /\ pc = "init_send"
    /\ \E lat \in LatencyValues, res \in Answers(SendResponses("rk-init")) :
        /\ Pass(lat)
        /\ IF res = TransportFailure THEN Panic
           ELSE LET request_key == RequestKeyOf(res)
                    withResult == Put(artifacts, "init_result", res)
                IN /\ NoIssue
                   /\ UNCHANGED <<spv_elapsed, pact_id, rk_complete, ready>>
                   /\ IF request_key = None
                      THEN /\ Fail(withResult, MissingRequestKeyInit, "initiate", "request_key")
                           /\ obtained' = Put(obtained, "init_result", res)
                           /\ wellFormed' = FALSE
                           /\ UNCHANGED <<rk, attempt>>
                      ELSE /\ rk' = request_key
                           /\ artifacts' = Put(withResult, "request_key_init",
                                               JStr(Unwrap(request_key)))
                           /\ obtained' = Put(Put(obtained, "init_result", res),
                                              "request_key_init", JStr(Unwrap(request_key)))
                           /\ attempt' = 0
                           /\ pc' = "init_poll"
                           /\ UNCHANGED <<failure, wellFormed>>
    /\ UNCHANGED <<inputs, signing, single, others>>

(***************************************************************************)
(* Stage 2, AwaitInitiationConfirmation: the first loop.                   *)
(***************************************************************************)
\* "attempt += 1; if should_timeout(..) { .. return } let res = fetch::poll(..)"
InitPollAttempt ==
    /\ pc = "init_poll"
    /\ attempt' = Min(attempt + 1, CounterCap(cfg.attempts_tx))
    /\ IF ShouldTimeout
       THEN /\ Fail(artifacts,
                    ExhaustionMessage("init", "timeout", cfg.max_total_time_ms),
                    "init", "timeout")
            /\ NoIssue
       ELSE /\ Issue("poll", SourceChain, [requestKeys |-> <<Unwrap(rk)>>], cfg.attempts_tx)
            /\ pc' = "init_poll_wait"
            /\ UNCHANGED <<artifacts, failure>>
    /\ UNCHANGED <<elapsed, spv_elapsed, locals, ready, obtained, wellFormed>>
    /\ UNCHANGED <<inputs, signing, single, others>>

\* the answer of the poll, the exit test, the attempt test, the sleep;
\* on exit, the listen request of stage 3 leaves
InitPollResponse ==
    /\ pc = "init_poll_wait"
    /\ \E lat \in LatencyValues, res \in Answers(PollResponses(Unwrap(rk))) :
        IF res = TransportFailure THEN Panic /\ Pass(lat)
        ELSE /\ UNCHANGED <<attempt, spv_elapsed, locals, obtained, wellFormed>>
             /\ ready' = [ready EXCEPT !["init"] = @ \/ ReportsSuccess(res, Unwrap(rk))]
             /\ IF InitConfirmed(res, Unwrap(rk))
                THEN /\ Pass(lat)
                     /\ Issue("listen", SourceChain, [listen |-> Unwrap(rk)], 1)
                     /\ pc' = "listen_wait"
                     /\ UNCHANGED <<artifacts, failure>>
                ELSE IF AttemptsExhausted(cfg.attempts_tx)
                THEN /\ Pass(lat)
                     /\ Fail(artifacts,
                             ExhaustionMessage("init", "attempts", cfg.attempts_tx),
                             "init", "attempts")
                     /\ NoIssue
                ELSE /\ Pass(lat + cfg.interval_tx_ms)
                     /\ pc' = "init_poll"
                     /\ NoIssue
                     /\ UNCHANGED <<artifacts, failure>>
    /\ UNCHANGED <<inputs, signing, single, others>>

(***************************************************************************)
(* Stage 3, FetchInitiationDetails, and stage 4, PostConfirmDelay.         *)
(***************************************************************************)
\* faulty variant: the delay is not skipped when it is configured as zero
AfterListenAlwaysDelay == "post_confirm"

\* "if cfg.post_confirm_wait_ms > 0 { .. sleep(..) }": where the listen step goes on
AfterListen == IF cfg.post_confirm_wait_ms > 0 THEN "post_confirm" ELSE "spv_poll"

ListenResponse ==
    /\ pc = "listen_wait"
    /\ \E lat \in LatencyValues, res \in Answers(ListenResponses) :
        /\ Pass(lat)
        /\ IF res = TransportFailure THEN Panic
           ELSE LET withListen == Put(artifacts, "init_listen_result", res)
                    gotListen == Put(obtained, "init_listen_result", res)
                    pid == PactIdOf(res)
                    status == StatusOf(res)
                IN /\ NoIssue
                   /\ UNCHANGED <<spv_elapsed, rk, rk_complete, ready>>
                   /\ IF pid = None
                      THEN /\ Fail(withListen, MissingPactId, "listen", "pact_id")
                           /\ obtained' = gotListen
                           /\ wellFormed' = FALSE
                           /\ UNCHANGED <<pact_id, attempt>>
                      ELSE IF status = None
                      THEN /\ Fail(Put(withListen, "pact_id", JStr(Unwrap(pid))),
                                   MissingStatus, "listen", "status")
                           /\ obtained' = Put(gotListen, "pact_id", JStr(Unwrap(pid)))
                           /\ wellFormed' = FALSE
                           /\ pact_id' = pid
                           /\ UNCHANGED attempt
                      ELSE /\ artifacts' = Put(Put(withListen, "pact_id", JStr(Unwrap(pid))),
                                               "init_status", JStr(Unwrap(status)))
                           /\ obtained' = Put(Put(gotListen, "pact_id", JStr(Unwrap(pid))),
                                              "init_status", JStr(Unwrap(status)))
                           /\ pact_id' = pid
                           /\ attempt' = 0
                           /\ pc' = AfterListen
                           /\ UNCHANGED <<failure, wellFormed>>
    /\ UNCHANGED <<inputs, signing, single, others>>

\* "if cfg.post_confirm_wait_ms > 0 { sleep(..) }", then poll_create_spv starts
PostConfirmDelay ==
    /\ pc = "post_confirm"
    /\ Pass(cfg.post_confirm_wait_ms)
    /\ pc' = "spv_poll"
    /\ NoIssue
    /\ UNCHANGED <<artifacts, attempt, spv_elapsed, locals, history>>
    /\ UNCHANGED <<inputs, signing, single, others>>


(***************************************************************************)
(* Stage 5, AwaitProof: poll_create_spv.  Its clock starts when it is      *)
(* called and its timeout is read from the process environment.            *)
(***************************************************************************)
\* "attempt += 1; <global timeout check>; let spv_res = fetch::spv(..)"
SpvAttempt ==
    /\ pc = "spv_poll"
    /\ attempt' = Min(attempt + 1, CounterCap(SpvMaxAttempts))
    /\ IF SpvShouldTimeout
       THEN /\ Fail(artifacts, ExhaustionMessage("spv", "timeout", envMaxTotal),
                    "spv", "timeout")
            /\ spv_elapsed' = 0
            /\ NoIssue
       ELSE /\ Issue("spv", SourceChain,
                     [requestKey |-> Unwrap(rk), targetChainId |-> TargetChain],
                     SpvMaxAttempts)
            /\ pc' = "spv_wait"
            /\ UNCHANGED <<artifacts, failure, spv_elapsed>>
    /\ UNCHANGED <<elapsed, locals, ready, obtained, wellFormed>>
    /\ UNCHANGED <<inputs, signing, single, others>>

\* faulty variant: the continuation's meta names the source chain
CompletionCommandOnSource(pid, proof) ==
    [type |-> "cont", pactId |-> pid, rollback |-> FALSE, step |-> 1, proof |-> proof,
     envData |-> ReceiverPublicKey,
     meta |-> MkMeta(<<"k:", key_pair.public_key>>, SourceChain),
     networkId |-> network_id,
     nonce |-> UtcNow,
     keyPairs |-> KeyPairsOf(key_pair, <<GasCap>>)]

\* crosschain_complete's command: the continuation carrying the proof
CompletionCommand(pid, proof) ==
    [type |-> "cont", pactId |-> pid, rollback |-> FALSE, step |-> 1, proof |-> proof,
     envData |-> ReceiverPublicKey,
     meta |-> MkMeta(<<"k:", key_pair.public_key>>, TargetChain),
     networkId |-> network_id,
     nonce |-> UtcNow,
     keyPairs |-> KeyPairsOf(key_pair, <<GasCap>>)]

\* the answer of /spv, the acceptance test, the attempt test, the sleep;
\* on Ok(proof), the completion of stage 6 is submitted on the target chain
SpvResponse ==
    /\ pc = "spv_wait"
    /\ \E lat \in LatencyValues, res \in Answers(SpvResponses) :
        IF res = TransportFailure THEN Panic /\ Pass(lat)
        ELSE /\ UNCHANGED <<locals, wellFormed>>
             /\ ready' = [ready EXCEPT !["spv"] = @ \/ CarriesProof(res)]
             /\ IF ProofAccepted(res)
                THEN /\ Pass(lat)
                     /\ spv_elapsed' = 0
                     /\ artifacts' = Put(artifacts, "spv_proof", JStr(Unwrap(ProofOpt(res))))
                     /\ obtained' = Put(obtained, "spv_proof", JStr(Unwrap(ProofOpt(res))))
                     /\ Issue("send", TargetChain,
                              SendBody(CompletionCommand(Unwrap(pact_id),
                                                         Unwrap(ProofOpt(res)))), 1)
                     /\ pc' = "complete_send"
                     /\ UNCHANGED <<attempt, failure>>
                ELSE IF SpvAttemptsExhausted(SpvMaxAttempts)
                THEN /\ Pass(lat)
                     /\ spv_elapsed' = 0
                     /\ Fail(artifacts, ExhaustionMessage("spv", "attempts", SpvMaxAttempts),
                             "spv", "attempts")
                     /\ NoIssue
                     /\ UNCHANGED <<attempt, obtained>>
                ELSE /\ Pass(lat + cfg.interval_spv_ms)
                     /\ PassSpv(lat + cfg.interval_spv_ms)
                     /\ pc' = "spv_poll"
                     /\ NoIssue
                     /\ UNCHANGED <<artifacts, attempt, failure, obtained>>
    /\ UNCHANGED <<inputs, signing, single, others>>

(***************************************************************************)
(* Stage 6, SubmitCompletion.                                              *)
(***************************************************************************)
CompleteResponse ==
    /\ pc = "complete_send"
    /\ \E lat \in LatencyValues, res \in Answers(SendResponses("rk-complete")) :
        /\ Pass(lat)
        /\ IF res = TransportFailure THEN Panic
           ELSE LET request_key_complete == RequestKeyOf(res)
                    withResult == Put(artifacts, "complete_result", res)
                IN /\ NoIssue
                   /\ UNCHANGED <<spv_elapsed, rk, pact_id, ready>>
                   /\ IF request_key_complete = None
                      THEN /\ Fail(withResult, MissingRequestKeyComplete,
                                   "complete", "request_key")
                           /\ obtained' = Put(obtained, "complete_result", res)
                           /\ wellFormed' = FALSE
                           /\ UNCHANGED <<rk_complete, attempt>>
                      ELSE /\ rk_complete' = request_key_complete
                           /\ artifacts' = Put(withResult, "request_key_complete",
                                               JStr(Unwrap(request_key_complete)))
                           /\ obtained' = Put(Put(obtained, "complete_result", res),
                                              "request_key_complete",
                                              JStr(Unwrap(request_key_complete)))
                           /\ attempt' = 0
                           /\ pc' = "final_poll"
                           /\ UNCHANGED <<failure, wellFormed>>
    /\ UNCHANGED <<inputs, signing, single, others>>

(***************************************************************************)
(* Stage 7, AwaitFinalConfirmation, and stage 8, Evaluate.                 *)
(***************************************************************************)
FinalPollAttempt ==
    /\ pc = "final_poll"
    /\ attempt' = Min(attempt + 1, CounterCap(cfg.attempts_final))
    /\ IF ShouldTimeout
       THEN /\ Fail(artifacts,
                    ExhaustionMessage("final", "timeout", cfg.max_total_time_ms),
                    "final", "timeout")
            /\ NoIssue
       ELSE /\ Issue("poll", TargetChain, [requestKeys |-> <<Unwrap(rk_complete)>>],
                     cfg.attempts_final)
            /\ pc' = "final_poll_wait"
            /\ UNCHANGED <<artifacts, failure>>
    /\ UNCHANGED <<elapsed, spv_elapsed, locals, ready, obtained, wellFormed>>
    /\ UNCHANGED <<inputs, signing, single, others>>

\* faulty variant: the success path forgets artifacts["final_poll_result"]
EvaluateWithoutResult(res) ==
    IF ~FinalAccepted(res, Unwrap(rk_complete))
    THEN Fail(artifacts,
              FinalFailedMessage(FinalStatusOf(res, Unwrap(rk_complete)),
                                 MaybeErrMsg(res, Unwrap(rk_complete))),
              "evaluate", "status")
    ELSE /\ artifacts' = Put(Put(artifacts, "final_status", JStr("success")),
                             "status", JStr("success"))
         /\ pc' = "done"
         /\ UNCHANGED failure

\* step 8 on the poll response the loop broke with
Evaluate(res) ==
    IF ~FinalAccepted(res, Unwrap(rk_complete))
    THEN Fail(artifacts,
              FinalFailedMessage(FinalStatusOf(res, Unwrap(rk_complete)),
                                 MaybeErrMsg(res, Unwrap(rk_complete))),
              "evaluate", "status")
    ELSE /\ artifacts' = Put(Put(Put(artifacts, "final_poll_result", res),
                                 "final_status", JStr("success")),
                             "status", JStr("success"))
         /\ pc' = "done"
         /\ UNCHANGED failure

FinalPollResponse ==
    /\ pc = "final_poll_wait"
    /\ \E lat \in LatencyValues, res \in Answers(PollResponses(Unwrap(rk_complete))) :
        IF res = TransportFailure THEN Panic /\ Pass(lat)
        ELSE /\ UNCHANGED <<attempt, spv_elapsed, locals, wellFormed>>
             /\ NoIssue
             /\ ready' = [ready EXCEPT !["final"] =
                            @ \/ ReportsSuccess(res, Unwrap(rk_complete))]
             /\ IF FinalFound(res, Unwrap(rk_complete))
                THEN /\ Pass(lat)
                     /\ obtained' = Put(obtained, "final_poll_result", res)
                     /\ Evaluate(res)
                ELSE IF AttemptsExhausted(cfg.attempts_final)
                THEN /\ Pass(lat)
                     /\ Fail(artifacts,
                             ExhaustionMessage("final", "attempts", cfg.attempts_final),
                             "final", "attempts")
                     /\ UNCHANGED obtained
                ELSE /\ Pass(lat + cfg.interval_final_ms)
                     /\ pc' = "final_poll"
                     /\ UNCHANGED <<artifacts, failure, obtained>>
    /\ UNCHANGED <<inputs, signing, single, others>>

Next ==
    \/ Initiate
    \/ InitiateResponse
    \/ InitPollAttempt
    \/ InitPollResponse
    \/ ListenResponse
    \/ PostConfirmDelay
    \/ SpvAttempt
    \/ SpvResponse
    \/ CompleteResponse
    \/ FinalPollAttempt
    \/ FinalPollResponse

Spec == Init /\ [][Next]_vars


\* Each network call returns (weak fairness of every step) and time advances:
\* a clock that can still advance (it is below the value at which the model
\* stops counting) does so sooner or later.
LiveSpec ==
    /\ Spec
    /\ WF_vars(Next)
    /\ SF_vars(elapsed < cfg.max_total_time_ms /\ Next /\ elapsed' > elapsed)
    /\ SF_vars(spv_elapsed < envMaxTotal /\ Next /\ spv_elapsed' > spv_elapsed)


\* the keypair objects handed to attach_sig: secretKey may be absent
KeyPairValues ==
    {JObj([publicKey |-> JStr(p)]) : p \in Publics}
    \cup {JObj([publicKey |-> JStr(p), secretKey |-> JStr(k)]) :
            p \in Publics, k \in SecretValues}

SeqsUpTo(S, n) == UNION {[1..k -> S] : k \in 0..n}

\* the entries of a batch handed to mk_single_cmd by a caller
Absent == <<"absent">>
EntryOf(h, g) ==
    JObj((IF h = Absent THEN EmptyFields ELSE [hash |-> h])
         @@ (IF g = Absent THEN EmptyFields ELSE [sig |-> g]))
BatchEntries ==
    { EntryOf(h, g) :
        h \in {Absent} \cup {JStr(B64UrlEncodedHash(HashBin(m))) : m \in Msgs},
        g \in {Absent, JNull, JStr(BinToHex(Ed25519Sign("s1", HashBin(<<"cmd-a">>))))} }
Batches == SeqsUpTo(BatchEntries, MaxKeyPairs) \ {<<>>}

\* no transfer runs while a command is signed
transfer == <<pc, cfg, network_id, envMaxTotal, key_pair, artifacts, attempt, elapsed,
              spv_elapsed, rk, pact_id, rk_complete, lastReq, calls, nReq, ready, obtained,
              failure, wellFormed, token_address, single_chain_id, result, parked, turn>>
TransferIdle ==
    /\ pc = "idle"
    /\ cfg = [attempts_tx |-> 0, interval_tx_ms |-> 0, post_confirm_wait_ms |-> 0,
              attempts_spv |-> 0, interval_spv_ms |-> 0, attempts_final |-> 0,
              interval_final_ms |-> 0, max_total_time_ms |-> 0]
    /\ network_id = "testnet04"
    /\ envMaxTotal = 0
    /\ key_pair = [public_key |-> "p1", secret_key |-> "s1", clist |-> None]
    /\ artifacts = EmptyFields
    /\ attempt = 0
    /\ elapsed = 0
    /\ spv_elapsed = 0
    /\ rk = None
    /\ pact_id = None
    /\ rk_complete = None
    /\ lastReq = [op |-> "none"]
    /\ calls = <<>>
    /\ nReq = [k \in CallKinds |-> 0]
    /\ ready = [st \in Stages |-> FALSE]
    /\ obtained = EmptyFields
    /\ failure = None
    /\ wellFormed = TRUE
    /\ SingleIdle
    /\ Alone

\* the members of a "keyPairs" array in a command JSON: secretKey and clist
\* may be absent, and secretKey may be the empty string
CommandKeyPairValues ==
    { JObj([publicKey |-> JStr(p)]
           @@ (IF k = Absent THEN EmptyFields ELSE [secretKey |-> k])
           @@ (IF c = Absent THEN EmptyFields ELSE [clist |-> c])) :
        p \in Publics,
        k \in {Absent, JStr(""), JStr("s1")},
        c \in {Absent, JNull, JArr(<<GasCap>>), JArr(<<GasCap, TransferCap>>)} }

\* the command JSONs handed to make_prepare_cmd: an exec and a cont command,
\* with or without "nonce" and "keyPairs", and the commands of
\* crosschain_transfer and crosschain_complete
ExecCommand ==
    [pactCode |-> <<"(coin.transfer-create)">>, envData |-> ReceiverPublicKey,
     meta |-> MkMeta(<<"k:", "p1">>, SourceChain), networkId |-> "testnet04"]
ContCommand ==
    [type |-> "cont", pactId |-> "pact-1", rollback |-> FALSE, step |-> 1,
     proof |-> ProofReady, envData |-> ReceiverPublicKey,
     meta |-> MkMeta(<<"k:", "p1">>, TargetChain), networkId |-> "testnet04"]
SendCmds ==
    { base @@ n @@ k :
        base \in {ExecCommand, ContCommand},
        n \in {EmptyFields, [nonce |-> <<"nonce-1">>]},
        k \in {EmptyFields}
               \cup {[keyPairs |-> a] : a \in SeqsUpTo(CommandKeyPairValues, MaxKeyPairs)} }
    \cup {InitiationCommand, CompletionCommand("pact-1", ProofReady)}

\* a command string and the keypairs of a caller of attach_sig, or the
\* command JSON of a caller of make_prepare_cmd
SignInit ==
    /\ TransferIdle
    /\ spc = "input"
    /\ \/ /\ send_cmd = None
          /\ cmd_string \in Msgs
          /\ key_pairs \in SeqsUpTo(KeyPairValues, MaxKeyPairs)
       \/ /\ send_cmd \in {Some(c) : c \in SendCmds}
          /\ cmd_string = EmptyText
          /\ key_pairs = <<>>
    /\ sigs = None
    /\ signed = None
    /\ origin = "none"
    /\ verified = None

\* prepare_exec_cmd / prepare_cont_cmd: "let sigs = attach_sig(&cmd, &kp_json);"
AttachSigStep ==
    /\ spc = "input"
    /\ send_cmd = None
    /\ sigs' = AttachSig(cmd_string, key_pairs)
    /\ spc' = IF AttachSig(cmd_string, key_pairs) = None THEN "panicked" ELSE "attached"
    /\ origin' = "attach_sig"
    /\ UNCHANGED <<cmd_string, key_pairs, signed, verified, send_cmd, transfer>>

\* a caller of the public mk_single_cmd brings a batch of its own
CallerBatchStep ==
    /\ spc = "input"
    /\ send_cmd = None
    /\ key_pairs = <<>>
    /\ \E batch \in Batches : sigs' = Some(batch)
    /\ spc' = "attached"
    /\ origin' = "caller"
    /\ UNCHANGED <<cmd_string, key_pairs, signed, verified, send_cmd, transfer>>

\* "mk_single_cmd(&sigs, &cmd)"
MkSingleCmdStep ==
    /\ spc = "attached"
    /\ signed' = MkSingleCmd(Unwrap(sigs), cmd_string)
    /\ spc' = IF MkSingleCmd(Unwrap(sigs), cmd_string) = None THEN "panicked" ELSE "made"
    /\ UNCHANGED <<cmd_string, key_pairs, sigs, origin, verified, send_cmd, transfer>>

\* sign(msg, secret), then verify under some public key: of the message, and
\* of the hash that sign returned
SignVerifyStep ==
    /\ spc = "input"
    /\ send_cmd = None
    /\ key_pairs = <<>>
    /\ \E secret \in ValidSecrets, public \in Publics :
          verified' = Some([secret |-> secret, public |-> public,
                            hash |-> Sign(cmd_string, secret)[1],
                            sig |-> Sign(cmd_string, secret)[2],
                            ok |-> Verify(cmd_string, public, Sign(cmd_string, secret)[2]),
                            okOnHash |-> Verify(Sign(cmd_string, secret)[1], public,
                                                Sign(cmd_string, secret)[2])])
    /\ spc' = "verified"
    /\ UNCHANGED <<cmd_string, key_pairs, sigs, signed, origin, send_cmd, transfer>>

\* fetch::make_prepare_cmd on the command JSON of the caller
MakePrepareCmdStep ==
    /\ spc = "input"
    /\ IsSome(send_cmd)
    /\ signed' = MakePrepareCmd(Unwrap(send_cmd))
    /\ spc' = IF MakePrepareCmd(Unwrap(send_cmd)) = None THEN "panicked" ELSE "made"
    /\ origin' = "make_prepare_cmd"
    /\ UNCHANGED <<cmd_string, key_pairs, sigs, verified, send_cmd, transfer>>

SignNext ==
    \/ AttachSigStep
    \/ MakePrepareCmdStep
    \/ CallerBatchStep
    \/ MkSingleCmdStep
    \/ SignVerifyStep

SignSpec == SignInit /\ [][SignNext]_vars

(***************************************************************************)
(* Two concurrent transfers.  Every call of crosschain_transfer_full has a *)
(* frame of its own (arguments and locals; the function uses no static and *)
(* no global but the process environment, which it only reads).  One call  *)
(* runs at a time: Switch sets the running frame aside and resumes the     *)
(* other one.  Time is counted per call, in the steps of that call.        *)
(***************************************************************************)
\* the configurations of the two calls: one attempt per stage, a timeout of
\* two ticks and a post-confirm delay of one
ConcurrentConfigs ==
    { c \in Configs :
        /\ c.attempts_tx = 1 /\ c.attempts_spv = 1 /\ c.attempts_final = 1
        /\ c.interval_tx_ms = 0
        /\ c.post_confirm_wait_ms = 1
        /\ c.max_total_time_ms = 2 }

\* the frame of a call that has not taken a step
StartFrame(c) ==
    << "start", c, "testnet04", [public_key |-> "p1", secret_key |-> "s1", clist |-> None],
       [status |-> JStr("starting")], 0, 0, 0, None, None, None, [op |-> "none"], <<>>,
       [k \in CallKinds |-> 0], [st \in Stages |-> FALSE], EmptyFields, None, TRUE >>

\* the running call has the frame f
FrameIs(f) ==
    /\ pc = f[1]
    /\ cfg = f[2]
    /\ network_id = f[3]
    /\ key_pair = f[4]
    /\ artifacts = f[5]
    /\ attempt = f[6]
    /\ elapsed = f[7]
    /\ spv_elapsed = f[8]
    /\ rk = f[9]
    /\ pact_id = f[10]
    /\ rk_complete = f[11]
    /\ lastReq = f[12]
    /\ calls = f[13]
    /\ nReq = f[14]
    /\ ready = f[15]
    /\ obtained = f[16]
    /\ failure = f[17]
    /\ wellFormed = f[18]

ConcurrentInit ==
    /\ envMaxTotal \in EnvTimeoutValues
    /\ \E c \in ConcurrentConfigs : FrameIs(StartFrame(c))
    /\ parked \in {Some(StartFrame(c)) : c \in ConcurrentConfigs}
    /\ turn = 1
    /\ SigningIdle
    /\ SingleIdle

\* faulty variant: the attempt counter is one counter of the process
SwitchSharingAttempt ==
    /\ IsSome(parked)
    /\ Unwrap(parked)[1] \notin {"done", "panicked"}
    /\ parked' = Some(frame)
    /\ turn' = 3 - turn
    /\ pc' = Unwrap(parked)[1]
    /\ cfg' = Unwrap(parked)[2]
    /\ network_id' = Unwrap(parked)[3]
    /\ key_pair' = Unwrap(parked)[4]
    /\ artifacts' = Unwrap(parked)[5]
    /\ attempt' = attempt
    /\ elapsed' = Unwrap(parked)[7]
    /\ spv_elapsed' = Unwrap(parked)[8]
    /\ rk' = Unwrap(parked)[9]
    /\ pact_id' = Unwrap(parked)[10]
    /\ rk_complete' = Unwrap(parked)[11]
    /\ lastReq' = Unwrap(parked)[12]
    /\ calls' = Unwrap(parked)[13]
    /\ nReq' = Unwrap(parked)[14]
    /\ ready' = Unwrap(parked)[15]
    /\ obtained' = Unwrap(parked)[16]
    /\ failure' = Unwrap(parked)[17]
    /\ wellFormed' = Unwrap(parked)[18]
    /\ UNCHANGED <<envMaxTotal, signing, single>>

\* the scheduler moves from one call to the other, which has not returned
Switch ==
    /\ IsSome(parked)
    /\ Unwrap(parked)[1] \notin {"done", "panicked"}
    /\ parked' = Some(frame)
    /\ turn' = 3 - turn
    /\ pc' = Unwrap(parked)[1]
    /\ cfg' = Unwrap(parked)[2]
    /\ network_id' = Unwrap(parked)[3]
    /\ key_pair' = Unwrap(parked)[4]
    /\ artifacts' = Unwrap(parked)[5]
    /\ attempt' = Unwrap(parked)[6]
    /\ elapsed' = Unwrap(parked)[7]
    /\ spv_elapsed' = Unwrap(parked)[8]
    /\ rk' = Unwrap(parked)[9]
    /\ pact_id' = Unwrap(parked)[10]
    /\ rk_complete' = Unwrap(parked)[11]
    /\ lastReq' = Unwrap(parked)[12]
    /\ calls' = Unwrap(parked)[13]
    /\ nReq' = Unwrap(parked)[14]
    /\ ready' = Unwrap(parked)[15]
    /\ obtained' = Unwrap(parked)[16]
    /\ failure' = Unwrap(parked)[17]
    /\ wellFormed' = Unwrap(parked)[18]
    /\ UNCHANGED <<envMaxTotal, signing, single>>

ConcurrentNext ==
    \/ Next
    \/ Switch

ConcurrentSpec == ConcurrentInit /\ [][ConcurrentNext]_vars

(***************************************************************************)
(* The single-chain transfer: tools::token_transfer.                       *)
(***************************************************************************)
TokenAddresses == {"coin", "free.token", "token"}
TokenNetworkIds == {"mainnet01", "testnet04", "devnet"}

\* token_address.split('.') has two parts
IsNamespaceDotModule(token) == token = "free.token"

\* the code and the TRANSFER capability that token_transfer names
TransferCreateCode(token) ==
    IF token = "coin" THEN "coin.transfer-create" ELSE "(free.token.transfer-create"
TokenTransferCap(token) ==
    Cap(IF token = "coin" THEN "coin.TRANSFER" ELSE "free.token.TRANSFER",
        <<JStr(SenderAccount), JStr(ReceiverAccount), JStr(Amount)>>)

\* the command JSON of token_transfer
TokenTransferCommand ==
    [pactCode |-> <<TransferCreateCode(token_address), SenderAccount, ReceiverAccount,
                    Amount>>,
     envData |-> ReceiverPublicKey,
     meta |-> MkMeta(<<"k:", key_pair.public_key>>, single_chain_id),
     networkId |-> network_id,
     nonce |-> UtcNow,
     keyPairs |-> KeyPairsOf(key_pair, <<GasCap, TokenTransferCap(token_address)>>)]

\* the orchestrator's state while token_transfer runs: it has none
TokenInit ==
    /\ pc = "tt_start"
    /\ cfg = [attempts_tx |-> 0, interval_tx_ms |-> 0, post_confirm_wait_ms |-> 0,
              attempts_spv |-> 0, interval_spv_ms |-> 0, attempts_final |-> 0,
              interval_final_ms |-> 0, max_total_time_ms |-> 0]
    /\ network_id \in TokenNetworkIds
    /\ envMaxTotal = 0
    /\ key_pair \in KeyPairInputs
    /\ artifacts = EmptyFields
    /\ attempt = 0
    /\ elapsed = 0
    /\ spv_elapsed = 0
    /\ rk = None
    /\ pact_id = None
    /\ rk_complete = None
    /\ lastReq = [op |-> "none"]
    /\ calls = <<>>
    /\ nReq = [k \in CallKinds |-> 0]
    /\ ready = [st \in Stages |-> FALSE]
    /\ obtained = EmptyFields
    /\ failure = None
    /\ wellFormed = TRUE
    /\ SigningIdle
    /\ token_address \in TokenAddresses
    /\ single_chain_id \in {SourceChain, TargetChain}
    /\ result = None
    /\ Alone

\* what token_transfer never touches
tokenFrame == <<cfg, network_id, envMaxTotal, key_pair, artifacts, attempt, elapsed,
                spv_elapsed, rk, pact_id, rk_complete, ready, failure, wellFormed,
                token_address, single_chain_id>>

\* token_transfer up to the request of fetch::send
TokenTransfer ==
    /\ pc = "tt_start"
    /\ IF \/ GetApiHost(network_id, single_chain_id) = None
          \/ token_address # "coin" /\ ~IsNamespaceDotModule(token_address)
          \/ MakePrepareCmd(TokenTransferCommand) = None
       THEN /\ pc' = "panicked"
            /\ NoIssue
       ELSE /\ Issue("send", single_chain_id, SendBody(TokenTransferCommand), 1)
            /\ pc' = "tt_send"
    /\ UNCHANGED <<tokenFrame, obtained, result, signing, others>>

\* faulty variant: an answer without request key makes token_transfer submit again
TokenTransferResponseRetry ==
    /\ pc = "tt_send"
    /\ \E res \in Answers(SendResponses("rk-single")) :
          IF res = TransportFailure
          THEN pc' = "panicked" /\ NoIssue /\ UNCHANGED <<obtained, result>>
          ELSE IF RequestKeyOf(res) = None
          THEN /\ Issue("send", single_chain_id, SendBody(TokenTransferCommand), 1)
               /\ pc' = "tt_send"
               /\ obtained' = Put(obtained, "send_result", res)
               /\ UNCHANGED result
          ELSE /\ result' = Some(res)
               /\ obtained' = Put(obtained, "send_result", res)
               /\ pc' = "tt_done"
               /\ NoIssue
    /\ UNCHANGED <<tokenFrame, signing, others>>

\* the answer of the submission: "fetch::send(&cmd, &api_host, false)" is the value
TokenTransferResponse ==
    /\ pc = "tt_send"
    /\ \E res \in Answers(SendResponses("rk-single")) :
          IF res = TransportFailure
          THEN pc' = "panicked" /\ UNCHANGED <<obtained, result>>
          ELSE /\ result' = Some(res)
               /\ obtained' = Put(obtained, "send_result", res)
               /\ pc' = "tt_done"
    /\ NoIssue
    /\ UNCHANGED <<tokenFrame, signing, others>>

TokenNext ==
    \/ TokenTransfer
    \/ TokenTransferResponse

TokenSpec == TokenInit /\ [][TokenNext]_vars

(***************************************************************************)
(* Vocabulary of the properties.                                           *)
(***************************************************************************)
Done == pc = "done"
Succeeded == Done /\ artifacts["status"] = JStr("success")
HasError == "error" \in DOMAIN artifacts
ErrorIs(msg) == HasError /\ artifacts["error"] = JStr(msg)

\* the network call a polling stage repeats, its budget and its interval
StageCall(stage) ==
    CASE stage = "init" -> <<"poll", SourceChain>>
      [] stage = "spv" -> <<"spv", SourceChain>>
      [] stage = "final" -> <<"poll", TargetChain>>
StageBudget(stage) ==
    CASE stage = "init" -> cfg.attempts_tx
      [] stage = "spv" -> cfg.attempts_spv
      [] stage = "final" -> cfg.attempts_final
StageInterval(stage) ==
    CASE stage = "init" -> cfg.interval_tx_ms
      [] stage = "spv" -> cfg.interval_spv_ms
      [] stage = "final" -> cfg.interval_final_ms

StageOrder ==
    << <<"send", SourceChain>>, <<"poll", SourceChain>>, <<"listen", SourceChain>>,
       <<"spv", SourceChain>>, <<"send", TargetChain>>, <<"poll", TargetChain>> >>

Has(key) == key \in DOMAIN artifacts

(***************************************************************************)
(* C1: the network calls of one transfer occur in the order submit(source) *)
(* -> poll(source)+ -> one listen(source) -> fetchProof(source)+ ->        *)
(* submit(target) -> poll(target)+; no stage is repeated after a later one *)
(* began, and a call of a later stage is issued only after the previous    *)
(* stage reached its exit condition.                                       *)
(***************************************************************************)
C1_StagesInOrder ==
    /\ Len(calls) <= Len(StageOrder)
    /\ \A i \in 1..Len(calls) : calls[i] = StageOrder[i]
    /\ nReq[<<"send", SourceChain>>] <= 1
    /\ nReq[<<"listen", SourceChain>>] <= 1
    /\ nReq[<<"send", TargetChain>>] <= 1
    /\ \A k \in CallKinds : nReq[k] > 0 => \E i \in 1..Len(calls) : calls[i] = k
    /\ Len(calls) >= 2 => Has("request_key_init")
    /\ Len(calls) >= 3 => ready["init"]
    /\ Len(calls) >= 4 => Has("init_listen_result") /\ Has("pact_id") /\ Has("init_status")
    /\ Len(calls) >= 5 => ready["spv"] /\ Has("spv_proof")
    /\ Len(calls) >= 6 => Has("request_key_complete")
    /\ Succeeded => calls = StageOrder

C1_Witness ==
    /\ Succeeded
    /\ calls = StageOrder
    /\ nReq[<<"poll", SourceChain>>] = 2
    /\ nReq[<<"spv", SourceChain>>] = 2
    /\ nReq[<<"poll", TargetChain>>] = 2
    /\ nReq[<<"listen", SourceChain>>] = 1

(***************************************************************************)
(* C2: when every polling stage is answered with its awaited outcome on    *)
(* some attempt N within the stage's budget (N = budget included) and the  *)
(* other answers are well formed, the transfer ends in success with the    *)
(* initiation request key, the pact id, the proof and the completion       *)
(* request key among the artifacts.  A stage gives up on its budget only   *)
(* after as many unanswered requests as the budget, and no stage fails by  *)
(* exhaustion once its awaited outcome was reported.                       *)
(***************************************************************************)
C2_SuccessWithinBudget ==
    Done =>
        /\ (wellFormed /\ \A st \in Stages : ready[st]) =>
              /\ Succeeded
              /\ Has("request_key_init") /\ Has("pact_id")
              /\ Has("spv_proof") /\ Has("request_key_complete")
        /\ \A st \in Stages :
              /\ ErrorIs(ExhaustionMessage(st, "attempts", StageBudget(st))) =>
                    ~ready[st] /\ nReq[StageCall(st)] = StageBudget(st)
              /\ ready[st] =>
                    \A c \in Causes, v \in AttemptValues \cup TimeoutValues :
                        ~ErrorIs(ExhaustionMessage(st, c, v))

\* success on the last attempt of every budget
C2_Witness ==
    /\ Succeeded
    /\ \A st \in Stages :
          StageBudget(st) = MaxAttempts /\ nReq[StageCall(st)] = MaxAttempts

(***************************************************************************)
(* C3: a return with status "success" carries every documented artifact,   *)
(* final_status = "success" and no "error" key.                            *)
(***************************************************************************)
DocumentedArtifacts ==
    {"request_key_init", "init_result", "init_listen_result", "pact_id", "init_status",
     "spv_proof", "complete_result", "request_key_complete", "final_poll_result",
     "final_status"}

C3_SuccessIsComplete ==
    Succeeded =>
        /\ \A k \in DocumentedArtifacts : Has(k)
        /\ artifacts["final_status"] = JStr("success")
        /\ ~HasError

C3_Witness == Succeeded /\ artifacts["init_status"] = JStr("success")


(***************************************************************************)
(* C4: with proof answers that never carry a proof and a proof budget      *)
(* n > 0, the transfer fails with the attempts-exhausted diagnostic after  *)
(* exactly n proof requests.                                               *)
(***************************************************************************)
ProofRequests == nReq[<<"spv", SourceChain>>]
\* the proof stage ran to a failing return and no answer carried a proof
ProofNeverCame ==
    /\ Done
    /\ cfg.attempts_spv > 0
    /\ ProofRequests >= 1
    /\ ~ready["spv"]

\* C4 as stated: attempts-exhausted after exactly n proof requests, in every case
C4_ExactlyNProofRequests ==
    ProofNeverCame =>
        /\ ErrorIs(ExhaustionMessage("spv", "attempts", cfg.attempts_spv))
        /\ ProofRequests = cfg.attempts_spv

\* C4 amended: never more than n proof requests; after exactly n the transfer
\* fails with the attempts-exhausted diagnostic, unless the timeout of the
\* proof stage expired first, and then it fails with the timeout diagnostic
\* after fewer than n requests.
C4_AtMostNProofRequests ==
    /\ cfg.attempts_spv > 0 => ProofRequests <= cfg.attempts_spv
    /\ ProofNeverCame =>
          \/ /\ ErrorIs(ExhaustionMessage("spv", "attempts", cfg.attempts_spv))
             /\ ProofRequests = cfg.attempts_spv
          \/ /\ ErrorIs(ExhaustionMessage("spv", "timeout", envMaxTotal))
             /\ envMaxTotal > 0
             /\ ProofRequests < cfg.attempts_spv

C4_Witness ==
    /\ ProofNeverCame
    /\ cfg.attempts_spv = MaxAttempts
    /\ ProofRequests = MaxAttempts
    /\ ErrorIs(ExhaustionMessage("spv", "attempts", MaxAttempts))

(***************************************************************************)
(* C5: in every polling stage with budget n > 0 and interval i, when       *)
(* 0 < max_total_time_ms < n * i and the awaited result never arrives, the *)
(* transfer fails with the timeout diagnostic and never with the           *)
(* max-attempts diagnostic.                                                *)
(***************************************************************************)
C5_TimeoutBeforeBudget ==
    \A st \in Stages :
        ( /\ StageBudget(st) > 0
          /\ cfg.max_total_time_ms > 0
          /\ cfg.max_total_time_ms < StageBudget(st) * StageInterval(st) )
        => ~ErrorIs(ExhaustionMessage(st, "attempts", StageBudget(st)))

(***************************************************************************)
(* C6: max_total_time_ms of the config is one budget, measured from the    *)
(* start of the transfer and shared by the three polling stages: once the  *)
(* time elapsed since the start reaches it, no polling stage issues a      *)
(* further request.                                                        *)
(***************************************************************************)
RequestInFlight == pc \in {"init_poll_wait", "spv_wait", "final_poll_wait"}
TransferTimedOut == cfg.max_total_time_ms > 0 /\ elapsed >= cfg.max_total_time_ms

C6_SharedTimeout == RequestInFlight => ~TransferTimedOut

(***************************************************************************)
(* C7: with max_total_time_ms > 0 in the config every transfer reaches a   *)
(* terminal state, whatever the attempt budgets are (0 = unbounded), when  *)
(* each network call returns and time advances.                            *)
(***************************************************************************)
Terminated == pc \in {"done", "panicked"}

C7_Terminates == (cfg.max_total_time_ms > 0) => <>Terminated

(***************************************************************************)
(* C8: in each polling stage the diagnostic of a spent attempt budget and  *)
(* the diagnostic of an exceeded timeout differ, and differ from those of  *)
(* the other stages: the "error" value alone tells cause and stage.        *)
(***************************************************************************)
LimitOf(st, c) ==
    IF c = "attempts" THEN StageBudget(st)
    ELSE IF st = "spv" THEN envMaxTotal ELSE cfg.max_total_time_ms

C8_DistinctDiagnostics ==
    \A st \in Stages, c \in Causes :
        (Done /\ failure = Some(<<st, c>>)) =>
            /\ ErrorIs(ExhaustionMessage(st, c, LimitOf(st, c)))
            /\ \A st2 \in Stages, c2 \in Causes, v \in AttemptValues \cup TimeoutValues :
                  <<st2, c2>> # <<st, c>> => ~ErrorIs(ExhaustionMessage(st2, c2, v))

\* an attempts failure and a timeout failure whose limits are the same number
C8_Witness ==
    /\ Done
    /\ failure = Some(<<"init", "attempts">>)
    /\ cfg.attempts_tx = cfg.max_total_time_ms

(***************************************************************************)
(* C9: every failing return carries "error" and every response and         *)
(* extracted value the transfer obtained before it, the final poll result  *)
(* that Evaluate rejects included.                                         *)
(***************************************************************************)
C9_FailureKeepsArtifacts ==
    (Done /\ ~Succeeded) =>
        /\ HasError
        /\ \A k \in DOMAIN obtained : Has(k) /\ artifacts[k] = obtained[k]

(***************************************************************************)
(* C10: the caller always gets the artifacts back, with an "error" entry   *)
(* when a stage failed; the call never aborts, neither on a transport      *)
(* failure nor on an unsupported network id.                               *)
(***************************************************************************)
C10_NeverAborts ==
    /\ pc # "panicked"
    /\ (Done /\ ~Succeeded) => HasError

(***************************************************************************)
(* C11: Evaluate reports success only for a final result whose status is   *)
(* success or whose failure message says that the pact was already         *)
(* completed; every other final result (another failure, or a result       *)
(* without status) makes the transfer Failed.                              *)
(***************************************************************************)
FinalResultObtained == Done /\ "final_poll_result" \in DOMAIN obtained
\* the known-benign failure: the pact was completed by someone else
BenignCompleted(res, key) ==
    Get(res, key) = Some(FailedResult(<<"resumePact", ": ", "pact completed">>))

C11_OnlyBenignAccepted ==
    FinalResultObtained =>
        ( Succeeded <=>
            \/ ReportsSuccess(obtained["final_poll_result"], Unwrap(rk_complete))
            \/ BenignCompleted(obtained["final_poll_result"], Unwrap(rk_complete)) )

(***************************************************************************)
(* C12: a proof is accepted only if the extracted string is non-empty,     *)
(* holds neither not-ready sentinel and holds no whitespace character; an  *)
(* answer that is not accepted consumes one attempt.                       *)
(***************************************************************************)
WhitespaceFragments == SpacedFragments \cup {"\n"}
AcceptedProof == artifacts["spv_proof"][2]

C12_ProofAcceptance ==
    /\ Has("spv_proof") =>
          /\ AcceptedProof # <<>>
          /\ ~Contains(AcceptedProof, NotReachable)
          /\ ~Contains(AcceptedProof, HashNotFound)
          /\ \A i \in 1..Len(AcceptedProof) : AcceptedProof[i] \notin WhitespaceFragments
    /\ pc = "spv_poll" => ProofRequests = attempt

(***************************************************************************)
(* C13: a submission response (initiation or completion) without a string  *)
(* at requestKeys[0] fails the transfer at that stage with the             *)
(* missing-request-key diagnostic, and no further network call is issued.  *)
(***************************************************************************)
HasRequestKey(res) ==
    /\ res[1] = "obj"
    /\ "requestKeys" \in DOMAIN res[2]
    /\ res[2]["requestKeys"][1] = "arr"
    /\ Len(res[2]["requestKeys"][2]) > 0
    /\ res[2]["requestKeys"][2][1][1] = "str"

C13_MissingRequestKeyIsFatal ==
    /\ (Has("init_result") /\ ~HasRequestKey(artifacts["init_result"])) =>
          /\ Done /\ ErrorIs(MissingRequestKeyInit)
          /\ calls = SubSeq(StageOrder, 1, 1)
    /\ (Has("complete_result") /\ ~HasRequestKey(artifacts["complete_result"])) =>
          /\ Done /\ ErrorIs(MissingRequestKeyComplete)
          /\ calls = SubSeq(StageOrder, 1, 5)
    /\ Done => ~ENABLED Next

C13_Witness ==
    /\ Done /\ ErrorIs(MissingRequestKeyComplete)
    /\ artifacts["complete_result"] = JObj([requestKeys |-> JArr(<<JNull>>)])

(***************************************************************************)
(* C14: a listen result without continuation.pactId or without             *)
(* result.status fails the transfer with a diagnostic naming the missing   *)
(* field; the listen result stays in the artifacts, and neither a proof    *)
(* request nor the completion submit is issued.                            *)
(***************************************************************************)
HasPactId(res) ==
    /\ res[1] = "obj" /\ "continuation" \in DOMAIN res[2]
    /\ res[2]["continuation"][1] = "obj"
    /\ "pactId" \in DOMAIN res[2]["continuation"][2]
    /\ res[2]["continuation"][2]["pactId"][1] = "str"
HasStatus(res) ==
    /\ res[1] = "obj" /\ "result" \in DOMAIN res[2]
    /\ res[2]["result"][1] = "obj"
    /\ "status" \in DOMAIN res[2]["result"][2]
    /\ res[2]["result"][2]["status"][1] = "str"
NothingAfterListen ==
    /\ Done
    /\ nReq[<<"spv", SourceChain>>] = 0
    /\ nReq[<<"send", TargetChain>>] = 0
    /\ calls = SubSeq(StageOrder, 1, 3)

C14_MissingListenFieldIsFatal ==
    /\ Has("init_listen_result") =>
          /\ ~HasPactId(artifacts["init_listen_result"]) =>
                ErrorIs(MissingPactId) /\ NothingAfterListen
          /\ (HasPactId(artifacts["init_listen_result"])
                /\ ~HasStatus(artifacts["init_listen_result"])) =>
                ErrorIs(MissingStatus) /\ NothingAfterListen
    /\ (ErrorIs(MissingPactId) \/ ErrorIs(MissingStatus)) =>
          /\ Has("init_listen_result")
          /\ artifacts["init_listen_result"] = obtained["init_listen_result"]

C14_Witness ==
    /\ Done /\ ErrorIs(MissingStatus)
    /\ ~HasStatus(artifacts["init_listen_result"])

(***************************************************************************)
(* C15: no cross-stage retry: the initiation is submitted at most once,    *)
(* listen is called at most once, the completion is submitted at most      *)
(* once, and after a failure nothing runs again.                           *)
(***************************************************************************)
C15_NoCrossStageRetry ==
    /\ nReq[<<"send", SourceChain>>] <= 1
    /\ nReq[<<"listen", SourceChain>>] <= 1
    /\ nReq[<<"send", TargetChain>>] <= 1
    /\ HasError => (Done /\ ~ENABLED Next)

C15_Witness ==
    /\ Done /\ failure = Some(<<"spv", "attempts">>)
    /\ nReq[<<"send", SourceChain>>] = 1
    /\ nReq[<<"listen", SourceChain>>] = 1
    /\ ProofRequests = MaxAttempts

(***************************************************************************)
(* C16: the completion submitted in SubmitCompletion is a continuation     *)
(* with the pact id of the listen result, the proof accepted in            *)
(* AwaitProof, step 1 and rollback false, addressed to the target chain    *)
(* (endpoint and meta chain id); the initiation, its polls, listen and the *)
(* proof requests are addressed to the source chain.                       *)
(***************************************************************************)
\* the chain named in the endpoint a request was posted to
EndpointChain == lastReq.host[2]
\* the command JSON inside the signed command that was posted to /send
SentCommand == JsonFromStr(lastReq.body[2]["cmds"][2][1][2]["cmd"][2])

C16_CompletionCarriesArtifacts ==
    /\ pc = "complete_send" =>
          /\ lastReq.op = "send"
          /\ DOMAIN SentCommand.payload = {"cont"}
          /\ SentCommand.payload.cont.pactId =
                artifacts["init_listen_result"][2]["continuation"][2]["pactId"][2]
          /\ SentCommand.payload.cont.proof = artifacts["spv_proof"][2]
          /\ SentCommand.payload.cont.step = 1
          /\ SentCommand.payload.cont.rollback = FALSE
          /\ SentCommand.meta.chainId = TargetChain
          /\ EndpointChain = TargetChain
    /\ pc = "init_send" =>
          /\ DOMAIN SentCommand.payload = {"exec"}
          /\ SentCommand.meta.chainId = SourceChain
          /\ EndpointChain = SourceChain
    /\ pc \in {"init_poll_wait", "listen_wait", "spv_wait"} =>
          EndpointChain = SourceChain

C16_Witness ==
    /\ pc = "complete_send"
    /\ SentCommand.payload.cont.proof = ProofReady
    /\ SentCommand.payload.cont.pactId = "pact-1"

(***************************************************************************)
(* Vocabulary of the signing properties.                                   *)
(***************************************************************************)
FromAttachSig == origin = "attach_sig" /\ spc \in {"attached", "made", "panicked"}
CommandHash == JStr(B64UrlEncodedHash(HashBin(cmd_string)))
HasSecret(kp) == "secretKey" \in DOMAIN kp[2]
SecretOf(kp) == kp[2]["secretKey"][2]
SuppliedPublic(kp) == kp[2]["publicKey"][2]
\* the entry's sig is a signature over the digest its hash encodes, under public
EntryVerifies(entry, public) ==
    /\ entry[2]["sig"][1] = "str"
    /\ Ed25519Verify(public, B64UrlDecode(entry[2]["hash"][2]), HexToBin(entry[2]["sig"][2]))

(***************************************************************************)
(* C17: for an empty keypair set attach_sig returns exactly one entry,     *)
(* with sig = null and the hash of the command string, and the signed      *)
(* command built from it carries that hash, the one null signature and the *)
(* command string.                                                         *)
(***************************************************************************)
C17_EmptyKeypairPlaceholder ==
    (FromAttachSig /\ key_pairs = <<>>) =>
        /\ spc # "panicked"
        /\ sigs = Some(<<JObj([hash |-> CommandHash, sig |-> JNull])>>)
        /\ spc = "made" =>
              signed = Some(JObj([hash |-> CommandHash,
                                  sigs |-> JArr(<<JObj([sig |-> JNull])>>),
                                  cmd |-> JStr(cmd_string)]))

C17_Witness == FromAttachSig /\ key_pairs = <<>> /\ spc = "made"

(***************************************************************************)
(* C18: for every non-empty keypair set attach_sig returns one entry per   *)
(* keypair, in keypair order, and every entry's sig verifies against the   *)
(* returned hash under the supplied public key.                            *)
(***************************************************************************)
\* C18 as stated
C18_EverySigVerifies ==
    (FromAttachSig /\ key_pairs # <<>>) =>
        /\ IsSome(sigs)
        /\ Len(Unwrap(sigs)) = Len(key_pairs)
        /\ \A i \in 1..Len(key_pairs) :
              /\ Unwrap(sigs)[i][2]["hash"] = CommandHash
              /\ EntryVerifies(Unwrap(sigs)[i], SuppliedPublic(key_pairs[i]))

\* C18 amended: attach_sig panics when a keypair holds a secretKey string
\* that is no key; otherwise it returns one entry per keypair, in keypair
\* order, each with the command's hash and the supplied public key; the
\* entry of a keypair without secretKey has sig = null; the entry of a
\* keypair with a secret key carries a signature that verifies against the
\* hash under the public key of that secret, hence under the supplied
\* public key exactly when the two correspond.
C18_OneEntryPerKeypair ==
    (FromAttachSig /\ key_pairs # <<>>) =>
        IF \E i \in 1..Len(key_pairs) :
              HasSecret(key_pairs[i]) /\ SecretOf(key_pairs[i]) \notin ValidSecrets
        THEN sigs = None /\ spc = "panicked"
        ELSE /\ IsSome(sigs)
             /\ Len(Unwrap(sigs)) = Len(key_pairs)
             /\ \A i \in 1..Len(key_pairs) :
                   /\ Unwrap(sigs)[i][2]["hash"] = CommandHash
                   /\ Unwrap(sigs)[i][2]["publicKey"] = JStr(SuppliedPublic(key_pairs[i]))
                   /\ ~HasSecret(key_pairs[i]) => Unwrap(sigs)[i][2]["sig"] = JNull
                   /\ HasSecret(key_pairs[i]) =>
                         \A public \in Publics :
                             EntryVerifies(Unwrap(sigs)[i], public)
                                 <=> public = PublicOf(SecretOf(key_pairs[i]))

\* two different keypairs, each with the public key of its secret
C18_Witness ==
    /\ FromAttachSig /\ spc = "attached"
    /\ Len(key_pairs) = MaxKeyPairs
    /\ key_pairs[1] # key_pairs[MaxKeyPairs]
    /\ \A i \in 1..Len(key_pairs) :
          /\ HasSecret(key_pairs[i])
          /\ SecretOf(key_pairs[i]) \in ValidSecrets
          /\ SuppliedPublic(key_pairs[i]) = PublicOf(SecretOf(key_pairs[i]))

(***************************************************************************)
(* C19: mk_single_cmd never produces a signed command from a batch whose   *)
(* entries carry two different hashes, also when the disagreeing entry has *)
(* no "sig" member: the construction fails.                                *)
(***************************************************************************)
HasHash(entry) == "hash" \in DOMAIN entry[2] /\ entry[2]["hash"][1] = "str"
TwoHashes(batch) ==
    \E i, j \in 1..Len(batch) :
        /\ HasHash(batch[i]) /\ HasHash(batch[j])
        /\ batch[i][2]["hash"] # batch[j][2]["hash"]

C19_HashMismatchIsFatal ==
    (IsSome(sigs) /\ TwoHashes(Unwrap(sigs))) =>
        /\ signed = None
        /\ spc \in {"attached", "panicked"}

\* the construction failed on a batch whose disagreeing entry has no "sig"
C19_Witness ==
    /\ spc = "panicked" /\ IsSome(sigs)
    /\ TwoHashes(Unwrap(sigs))
    /\ \E i \in 1..Len(Unwrap(sigs)) :
          /\ HasHash(Unwrap(sigs)[i])
          /\ Unwrap(sigs)[i][2]["hash"] # Unwrap(sigs)[1][2]["hash"]
          /\ "sig" \notin DOMAIN Unwrap(sigs)[i][2]
    /\ \A i \in 1..Len(Unwrap(sigs)) :
          "sig" \notin DOMAIN Unwrap(sigs)[i][2] =>
              Unwrap(sigs)[i][2]["hash"] # Unwrap(sigs)[1][2]["hash"]

(***************************************************************************)
(* C20: verify(x, publicKey, sign(x, secretKey)) is true for every valid   *)
(* keypair and false when publicKey does not correspond to secretKey; the  *)
(* hash and the signature that sign returns round-trip through verify.     *)
(***************************************************************************)
RoundTrip == Unwrap(verified)

\* C20 as stated
C20_SignVerifyRoundTrip ==
    spc = "verified" =>
        /\ RoundTrip.ok <=> RoundTrip.public = PublicOf(RoundTrip.secret)
        /\ RoundTrip.public = PublicOf(RoundTrip.secret) => RoundTrip.okOnHash

\* C20 amended: verify(msg, publicKey, sig) with the sig of sign(msg,
\* secretKey) is true exactly when publicKey corresponds to secretKey; the
\* hash that sign returns is the encoded digest of msg and the sig is a
\* signature over that digest; verify takes the message and digests it
\* itself, so it is false on the returned hash in the place of the message.
C20_SignVerifySameMessage ==
    spc = "verified" =>
        /\ RoundTrip.ok <=> RoundTrip.public = PublicOf(RoundTrip.secret)
        /\ RoundTrip.hash = B64UrlEncodedHash(HashBin(cmd_string))
        /\ Ed25519Verify(PublicOf(RoundTrip.secret), B64UrlDecode(RoundTrip.hash),
                         HexToBin(RoundTrip.sig))
        /\ ~RoundTrip.okOnHash

C20_Witness ==
    /\ spc = "verified"
    /\ RoundTrip.ok
    /\ RoundTrip.secret = "s2"

(***************************************************************************)
(* Vocabulary of the properties of make_prepare_cmd.                       *)
(***************************************************************************)
FromMakePrepareCmd == origin = "make_prepare_cmd" /\ spc \in {"made", "panicked"}
\* the "keyPairs" member of the command JSON, as make_prepare_cmd reads it
SuppliedKeyPairs ==
    IF "keyPairs" \in DOMAIN Unwrap(send_cmd) THEN Unwrap(send_cmd).keyPairs ELSE <<>>
\* the keypair names no secret: "secretKey" is absent, or the empty string
EmptySecret(kp) ==
    "secretKey" \in DOMAIN kp[2] => kp[2]["secretKey"] = JStr("")
\* the members of the signed command
SignedHash == Unwrap(signed)[2]["hash"]
SignedSigs == Unwrap(signed)[2]["sigs"][2]
SignedCmd == Unwrap(signed)[2]["cmd"][2]

(***************************************************************************)
(* C21: on the path command JSON -> make_prepare_cmd -> prepare_exec_cmd / *)
(* prepare_cont_cmd -> attach_sig -> sign_map, a keypair supplied with an  *)
(* empty secret key is not rejected: the signed command is produced, it    *)
(* has one entry per keypair, and the entry of that keypair is unsigned    *)
(* (sig = null).                                                           *)
(***************************************************************************)
C21_EmptySecretIsUnsigned ==
    (FromMakePrepareCmd /\ \E i \in 1..Len(SuppliedKeyPairs) :
                              EmptySecret(SuppliedKeyPairs[i])) =>
        /\ spc = "made"
        /\ IsSome(signed)
        /\ Len(SignedSigs) = Len(SuppliedKeyPairs)
        /\ \A i \in 1..Len(SuppliedKeyPairs) :
              EmptySecret(SuppliedKeyPairs[i]) => SignedSigs[i] = JObj([sig |-> JNull])

(***************************************************************************)
(* C22: in every signed command that prepare_exec_cmd or prepare_cont_cmd  *)
(* produces, cmd is the string that was hashed and signed: hash is the     *)
(* base64url digest of that cmd string, every non-null sig is a signature  *)
(* over that digest, and cmd is the serialisation of the command built     *)
(* from the caller's payload.                                              *)
(***************************************************************************)
\* the payload that the caller's command JSON asks for
RequestedPayload ==
    LET c == Unwrap(send_cmd) IN
    IF "type" \in DOMAIN c /\ c.type = "cont"
    THEN [cont |-> [proof |-> c.proof, pactId |-> c.pactId, rollback |-> c.rollback,
                    step |-> c.step, data |-> c.envData]]
    ELSE [exec |-> [data |-> c.envData, code |-> c.pactCode]]

C22_CmdIsWhatWasSigned ==
    (FromMakePrepareCmd /\ spc = "made") =>
        /\ SignedHash = JStr(B64UrlEncodedHash(HashBin(SignedCmd)))
        /\ \A i \in 1..Len(SignedSigs) :
              SignedSigs[i][2]["sig"] # JNull =>
                  /\ SignedSigs[i][2]["sig"][1] = "str"
                  /\ HexToBin(SignedSigs[i][2]["sig"][2])[3] = HashBin(SignedCmd)
        /\ SignedCmd = JsonToString(JsonFromStr(SignedCmd))
        /\ JsonFromStr(SignedCmd).payload = RequestedPayload

\* a continuation signed by two keys
C22_Witness ==
    /\ FromMakePrepareCmd /\ spc = "made"
    /\ DOMAIN RequestedPayload = {"cont"}
    /\ Len(SignedSigs) = MaxKeyPairs
    /\ \A i \in 1..Len(SignedSigs) : SignedSigs[i][2]["sig"] # JNull

(***************************************************************************)
(* C23: capability lists are attached to the signer entries, not to the    *)
(* top-level command: signers[i] has the public key of keypair i and       *)
(* carries a clist, equal to the keypair's capability list, exactly when   *)
(* the keypair has one; the initiation's signer carries coin.GAS and       *)
(* TRANSFER_XCHAIN(sender, receiver, amount, target chain), the            *)
(* completion's signer carries coin.GAS.                                   *)
(***************************************************************************)
Signers == JsonFromStr(SignedCmd).signers
HasClist(kp) == "clist" \in DOMAIN kp[2] /\ kp[2]["clist"][1] = "arr"

C23_ClistOnSigner ==
    (FromMakePrepareCmd /\ spc = "made") =>
        /\ DOMAIN JsonFromStr(SignedCmd) = {"networkId", "payload", "signers", "meta", "nonce"}
        /\ Len(Signers) = Len(SuppliedKeyPairs)
        /\ \A i \in 1..Len(SuppliedKeyPairs) :
              /\ Signers[i][2]["pubKey"] = SuppliedKeyPairs[i][2]["publicKey"]
              /\ DOMAIN Signers[i][2] \subseteq {"pubKey", "clist"}
              /\ "clist" \in DOMAIN Signers[i][2] <=> HasClist(SuppliedKeyPairs[i])
              /\ HasClist(SuppliedKeyPairs[i]) =>
                    Signers[i][2]["clist"] = SuppliedKeyPairs[i][2]["clist"]
        /\ send_cmd = Some(InitiationCommand) =>
              Signers = <<JObj([pubKey |-> JStr(key_pair.public_key),
                                clist |-> JArr(<<GasCap, TransferXChainCap>>)])>>
        /\ send_cmd = Some(CompletionCommand("pact-1", ProofReady)) =>
              Signers = <<JObj([pubKey |-> JStr(key_pair.public_key),
                                clist |-> JArr(<<GasCap>>)])>>

\* two signers, each with a capability list of its own
C23_Witness ==
    /\ FromMakePrepareCmd /\ spc = "made"
    /\ Len(Signers) = MaxKeyPairs
    /\ HasClist(SuppliedKeyPairs[1]) /\ HasClist(SuppliedKeyPairs[MaxKeyPairs])
    /\ Signers[1][2]["clist"] # Signers[MaxKeyPairs][2]["clist"]

(***************************************************************************)
(* C24: token_transfer has no retry loop: it issues exactly one submit     *)
(* call, on the given chain, and no poll, listen or proof call, and it     *)
(* returns the answer of the submission as it is.                          *)
(***************************************************************************)
C24_SingleSubmit ==
    /\ \A k \in CallKinds :
          nReq[k] > 0 => k = <<"send", single_chain_id>> /\ nReq[k] = 1
    /\ pc \in {"tt_send", "tt_done"} =>
          /\ nReq[<<"send", single_chain_id>>] = 1
          /\ calls = << <<"send", single_chain_id>> >>
          /\ lastReq.op = "send" /\ EndpointChain = single_chain_id
    /\ pc = "tt_done" => result = Some(obtained["send_result"])
    /\ pc # "tt_done" => result = None

\* the submission was answered without a request key, and that is what is returned
C24_Witness ==
    /\ pc = "tt_done"
    /\ single_chain_id = TargetChain
    /\ RequestKeyOf(Unwrap(result)) = None

(***************************************************************************)
(* C25: concurrent transfers are independent.  When two calls of           *)
(* crosschain_transfer_full are interleaved arbitrarily, each has its own  *)
(* artifacts, attempt counter and start time: a step of the running call   *)
(* leaves the frame of the other call as it is, a call that is resumed     *)
(* finds its frame as it left it, in every frame the attempt counter is    *)
(* the number of requests this call issued in its stage and the artifacts  *)
(* are the answers to its own requests, and the running call satisfies     *)
(* what a call that runs alone satisfies.                                  *)
(***************************************************************************)
\* in a polling stage the attempt counter of a frame is the number of
\* requests that this call has issued in the stage
FrameCountersAgree(f) ==
    /\ f[1] = "init_poll_wait" => f[6] = f[14][<<"poll", SourceChain>>]
    /\ f[1] = "spv_wait" => f[6] = f[14][<<"spv", SourceChain>>]
    /\ f[1] = "final_poll_wait" => f[6] = f[14][<<"poll", TargetChain>>]
\* the artifacts of a frame are what this call obtained
FrameArtifactsOwn(f) ==
    /\ DOMAIN f[5] \subseteq DOMAIN f[16] \cup {"status", "error", "final_status"}
    /\ \A k \in DOMAIN f[5] \cap DOMAIN f[16] : f[5][k] = f[16][k]
\* what a call that runs alone satisfies
AsAlone ==
    /\ C1_StagesInOrder
    /\ C2_SuccessWithinBudget
    /\ C3_SuccessIsComplete
    /\ C4_AtMostNProofRequests
    /\ C8_DistinctDiagnostics
    /\ C13_MissingRequestKeyIsFatal
    /\ C14_MissingListenFieldIsFatal
    /\ C15_NoCrossStageRetry
    /\ C16_CompletionCarriesArtifacts
FramesSound ==
    /\ FrameCountersAgree(frame) /\ FrameArtifactsOwn(frame)
    /\ IsSome(parked) =>
          FrameCountersAgree(Unwrap(parked)) /\ FrameArtifactsOwn(Unwrap(parked))
    /\ AsAlone
FramesApart ==
    /\ turn' = turn => parked' = parked
    /\ turn' # turn => parked' = Some(frame) /\ Some(frame') = parked

C25_TransfersIndependent == []FramesSound /\ [][FramesApart]_vars

\* both calls have returned, the running one with success after a request
\* of the other one, the other one with an error and a different clock
C25_Witness ==
    /\ IsSome(parked) /\ turn = 2
    /\ Succeeded
    /\ Unwrap(parked)[1] = "done"
    /\ "error" \in DOMAIN Unwrap(parked)[5]
    /\ Unwrap(parked)[14][<<"spv", SourceChain>>] = 1
    /\ Unwrap(parked)[7] # elapsed

(***************************************************************************)
(* C26: the behaviour of crosschain_transfer_full is determined by the     *)
(* configuration passed to it and by the network responses, whatever the   *)
(* environment variables of the process are.  With the variable            *)
(* XCHAIN_MAX_TOTAL_TIME_MS unset the proof stage has no timeout of its    *)
(* own, so under the claim no transfer returns with the timeout diagnostic *)
(* of the proof stage, which names the value of that variable.             *)
(***************************************************************************)
\* the transfer returned from the timeout check of poll_create_spv
ProofStageTimedOut == Done /\ failure = Some(<<"spv", "timeout">>)

C26_EnvironmentIrrelevant == ~ProofStageTimedOut

(***************************************************************************)
(* C27: the secret key is neither persisted nor transmitted.  A body       *)
(* posted to /send holds the command text with its five members (no        *)
(* "keyPairs"), signer entries of public key and capability list, the hash *)
(* and the signature made with the key; a body of /poll, /listen and /spv  *)
(* holds a request key that the network gave; every artifact is an answer  *)
(* of the network, a value read from one, or a status or diagnostic text   *)
(* of the orchestrator.                                                    *)
(***************************************************************************)
\* the one entry of "cmds" in the body of a /send request
SentEntry == lastReq.body[2]["cmds"][2][1][2]
\* a signer entry names the public key and at most a capability list
SignerIsPublic(signer) ==
    /\ signer[1] = "obj"
    /\ DOMAIN signer[2] \subseteq {"pubKey", "clist"}
    /\ signer[2]["pubKey"] = JStr(key_pair.public_key)
    /\ signer[2]["pubKey"] # JStr(key_pair.secret_key)
\* what leaves the signing step for the text of a command: hash and signature
DerivedSigs(text) ==
    <<JObj([sig |-> JStr(BinToHex(Ed25519Sign(key_pair.secret_key, HashBin(text))))])>>
SendBodyIsPublic ==
    /\ DOMAIN lastReq.body[2] = {"cmds"}
    /\ Len(lastReq.body[2]["cmds"][2]) = 1
    /\ DOMAIN SentEntry = {"hash", "sigs", "cmd"}
    /\ DOMAIN SentCommand = {"networkId", "payload", "signers", "meta", "nonce"}
    /\ Len(SentCommand.signers) = 1
    /\ \A i \in 1..Len(SentCommand.signers) : SignerIsPublic(SentCommand.signers[i])
    /\ SentCommand.meta = MkMeta(<<"k:", key_pair.public_key>>, lastReq.chain)
    /\ SentCommand.networkId = network_id
    /\ SentCommand.nonce = UtcNow
    /\ SentEntry["hash"] = JStr(B64UrlEncodedHash(HashBin(SentEntry["cmd"][2])))
    /\ SentEntry["sigs"] = JArr(DerivedSigs(SentEntry["cmd"][2]))
QueryBodyIsPublic ==
    /\ lastReq.op = "poll" =>
          /\ DOMAIN lastReq.body = {"requestKeys"}
          /\ lastReq.body.requestKeys \in {<<Unwrap(key)>> : key \in {rk, rk_complete} \ {None}}
    /\ lastReq.op = "listen" =>
          /\ DOMAIN lastReq.body = {"listen"}
          /\ lastReq.body.listen = Unwrap(rk)
    /\ lastReq.op = "spv" =>
          /\ DOMAIN lastReq.body = {"requestKey", "targetChainId"}
          /\ lastReq.body.requestKey = Unwrap(rk)
          /\ lastReq.body.targetChainId = TargetChain
ArtifactsArePublic ==
    \A k \in DOMAIN artifacts :
        \/ k \in {"status", "error", "final_status"}
        \/ k \in DOMAIN obtained /\ artifacts[k] = obtained[k]

C27_SecretStaysInSigning ==
    /\ lastReq.op = "send" => SendBodyIsPublic
    /\ QueryBodyIsPublic
    /\ ArtifactsArePublic

\* the transfer succeeded: both commands were signed and submitted, every
\* kind of request was made and every artifact written
C27_Witness ==
    /\ Succeeded
    /\ key_pair.secret_key = "s1"
    /\ \A k \in CallKinds \ {<<"listen", TargetChain>>, <<"spv", TargetChain>>} : nReq[k] >= 1
    /\ lastReq.op = "poll"
    /\ "spv_proof" \in DOMAIN artifacts

(***************************************************************************)
(* C28: the global timeout is checked before each network call (submit,    *)
(* poll, listen, proof request) and before each sleep (interval and        *)
(* post-confirm delay): no call starts at a time at which                  *)
(* max_total_time_ms has elapsed, and no sleep starts when it had elapsed  *)
(* already before the step.                                                *)
(***************************************************************************)
\* positions in which a network call is in flight
InCall == {"init_send", "init_poll_wait", "listen_wait", "spv_wait",
           "complete_send", "final_poll_wait"}
\* the step ends with a network call leaving
StartsCall == pc' \in InCall /\ pc' # pc
\* the step sleeps: the post-confirm delay, or the interval of a polling loop
StartsSleep ==
    \/ pc = "post_confirm" /\ pc' = "spv_poll"
    \/ pc = "init_poll_wait" /\ pc' = "init_poll" /\ cfg.interval_tx_ms > 0
    \/ pc = "spv_wait" /\ pc' = "spv_poll" /\ cfg.interval_spv_ms > 0
    \/ pc = "final_poll_wait" /\ pc' = "final_poll" /\ cfg.interval_final_ms > 0
CancellationPoints ==
    /\ StartsCall => ~TransferTimedOut'
    /\ StartsSleep => ~TransferTimedOut

C28_TimeoutAtEveryPoint == [][CancellationPoints]_vars

(***************************************************************************)
(* C29: the final poll stage honours the exhaustion rules of the           *)
(* initiation poll stage.  With budget n > 0 each of the two stages issues *)
(* at most n poll requests, a poll leaves only while the attempt counter   *)
(* is within the budget, and the stage is over with the first answer that  *)
(* satisfies its exit condition: status success under the initiation key,  *)
(* any entry under the completion key.                                     *)
(***************************************************************************)
PollStages == {"init", "final"}
\* the positions of the loop of a poll stage
LoopOf(st) ==
    IF st = "init" THEN {"init_poll", "init_poll_wait"} ELSE {"final_poll", "final_poll_wait"}
\* an answer of the stage satisfied its exit condition
ExitSeen(st) ==
    IF st = "init" THEN ready["init"] ELSE "final_poll_result" \in DOMAIN obtained

C29_SameExhaustionRules ==
    \A st \in PollStages :
        /\ StageBudget(st) > 0 => nReq[StageCall(st)] <= StageBudget(st)
        /\ (StageBudget(st) > 0 /\ pc \in LoopOf(st)) =>
              /\ attempt <= StageBudget(st)
              /\ attempt = StageBudget(st) => pc = IF st = "init" THEN "init_poll_wait"
                                                                 ELSE "final_poll_wait"
        /\ pc \in LoopOf(st) => ~ExitSeen(st)

\* both stages were answered on the last attempt of their budget
C29_Witness ==
    /\ Succeeded
    /\ cfg.attempts_tx = MaxAttempts /\ cfg.attempts_final = MaxAttempts
    /\ nReq[<<"poll", SourceChain>>] = MaxAttempts
    /\ nReq[<<"poll", TargetChain>>] = MaxAttempts
    /\ ExitSeen("init") /\ ExitSeen("final")

(***************************************************************************)
(* C30: the post-confirm delay happens at most once per transfer, only     *)
(* between the extraction of pact id and status from the listen answer and *)
(* the first proof request, and not at all when post_confirm_wait_ms is    *)
(* zero.  The delay is entered with the answer of the listen request only, *)
(* of which there is one; it lasts post_confirm_wait_ms and ends where     *)
(* poll_create_spv starts.                                                 *)
(***************************************************************************)
\* the step in which the orchestrator sleeps post_confirm_wait_ms
Delays == pc = "post_confirm" /\ pc' # pc
ExtractionDone == Has("pact_id") /\ Has("init_status") /\ IsSome(pact_id)
DelayInPlace ==
    /\ nReq[<<"listen", SourceChain>>] <= 1
    /\ pc = "post_confirm" =>
          /\ cfg.post_confirm_wait_ms > 0
          /\ ExtractionDone
          /\ nReq[<<"listen", SourceChain>>] = 1
          /\ ProofRequests = 0
DelayStep ==
    /\ (pc' = "post_confirm" /\ pc' # pc) => pc = "listen_wait"
    /\ Delays =>
          /\ pc' = "spv_poll"
          /\ elapsed' = Min(elapsed + cfg.post_confirm_wait_ms, cfg.max_total_time_ms)
          /\ UNCHANGED <<artifacts, nReq, lastReq>>
    /\ (pc = "listen_wait" /\ pc' = "spv_poll") => cfg.post_confirm_wait_ms = 0
    /\ (pc' = "spv_poll" /\ pc # "spv_wait" /\ pc' # pc) =>
          /\ pc \in {"listen_wait", "post_confirm"}
          /\ ExtractionDone'

C30_DelayOnceBeforeProof == []DelayInPlace /\ [][DelayStep]_vars

\* the delay is over and the first proof request has not left
C30_Witness ==
    /\ pc = "spv_poll"
    /\ cfg.post_confirm_wait_ms > 0
    /\ cfg.max_total_time_ms = MaxTimeout
    /\ elapsed >= cfg.post_confirm_wait_ms
    /\ ExtractionDone
    /\ ProofRequests = 0

(***************************************************************************)
(* C31: whenever the transfer reports status "success" the recorded        *)
(* init_status is "success": a transfer whose listen result reports        *)
(* another status is not completed.                                        *)
(***************************************************************************)
C31_SuccessMeansInitSuccess ==
    Succeeded => Has("init_status") /\ artifacts["init_status"] = JStr("success")

(***************************************************************************)
(* C32: the orchestrator leaves the initiation poll stage forward (listen, *)
(* proof retrieval, completion) only after a poll of the source chain      *)
(* returned an entry under the initiation request key whose result.status  *)
(* is "success".  An answer with another status or without the entry       *)
(* counts as not yet confirmed: the stage polls again or ends on its       *)
(* attempt budget.                                                         *)
(***************************************************************************)
\* a request of a later stage has left
WentForward ==
    \/ nReq[<<"listen", SourceChain>>] >= 1
    \/ nReq[<<"spv", SourceChain>>] >= 1
    \/ nReq[<<"send", TargetChain>>] >= 1
    \/ nReq[<<"poll", TargetChain>>] >= 1
    \/ Has("init_listen_result")
\* the answer of an initiation poll is taken and it did not report success
UnconfirmedAnswer == pc = "init_poll_wait" /\ pc' # pc /\ ~ready'["init"]
NotYetConfirmed ==
    UnconfirmedAnswer =>
        /\ pc' \in {"init_poll", "done", "panicked"}
        /\ ~WentForward'
        /\ pc' = "done" => failure' = Some(<<"init", "attempts">>)

C32_ForwardOnlyOnSuccess == [](WentForward => ready["init"]) /\ [][NotYetConfirmed]_vars

\* the first poll answer did not confirm, the second one did
C32_Witness ==
    /\ pc = "listen_wait"
    /\ nReq[<<"poll", SourceChain>>] = 2
    /\ ready["init"]
    /\ WentForward


(***************************************************************************)
(* C33: with the three attempt budgets greater than zero every transfer    *)
(* ends in a return, success or failure, and by then it has sent at most   *)
(* attempts_tx + attempts_spv + attempts_final polling requests, whatever  *)
(* the network answers and whatever the timeouts are.                      *)
(***************************************************************************)
AllBudgeted ==
    /\ cfg.attempts_tx > 0
    /\ cfg.attempts_spv > 0
    /\ cfg.attempts_final > 0

\* the requests of the three polling loops: initiation poll, proof, final poll
PollingRequests ==
    nReq[<<"poll", SourceChain>>] + ProofRequests + nReq[<<"poll", TargetChain>>]

PollingBudget == cfg.attempts_tx + cfg.attempts_spv + cfg.attempts_final

WithinPollingBudget == AllBudgeted => PollingRequests <= PollingBudget

EndsInReturn == AllBudgeted => pc # "panicked"

C33_BoundedTermination == WithinPollingBudget /\ EndsInReturn


(***************************************************************************)
(* C34: at every return the outcome markers are consistent and exclude     *)
(* each other: either status and final_status are both "success" and there *)
(* is no "error" entry, or there is an "error" entry, status still has its *)
(* initial value "starting" and final_status is absent.                    *)
(***************************************************************************)
MarkedSuccess ==
    /\ artifacts["status"] = JStr("success")
    /\ Has("final_status") /\ artifacts["final_status"] = JStr("success")
    /\ ~Has("error")

MarkedFailure ==
    /\ Has("error")
    /\ artifacts["status"] = JStr("starting")
    /\ ~Has("final_status")

C34_OutcomeMarkersExclusive ==
    Done => /\ Has("status")
            /\ MarkedSuccess \/ MarkedFailure

\* a failing return after artifacts were stored, and a successful return
C34_Witness ==
    /\ Done
    /\ MarkedFailure
    /\ Has("spv_proof")
    /\ failure = Some(<<"final", "attempts">>)

ReturnedMarkedSuccess == Done /\ MarkedSuccess /\ Has("final_poll_result")


(***************************************************************************)
(* C35: the artifacts only grow.  A key once written is never removed and  *)
(* its value never changes, except "status", which is overwritten only by  *)
(* the successful return.                                                  *)
(***************************************************************************)
ArtifactKeys ==
    {"init_result", "request_key_init", "init_listen_result", "pact_id",
     "init_status", "spv_proof", "complete_result", "request_key_complete"}

ArtifactsKept ==
    \A k \in DOMAIN artifacts \ {"status"} :
        k \in DOMAIN artifacts' /\ artifacts'[k] = artifacts[k]

StatusOnlyOnSuccess ==
    /\ "status" \in DOMAIN artifacts'
    /\ artifacts'["status"] # artifacts["status"] =>
          /\ artifacts'["status"] = JStr("success")
          /\ pc' = "done" /\ failure' = None

C35_ArtifactsOnlyGrow == [][ArtifactsKept /\ StatusOnlyOnSuccess]_vars

\* all eight keys written, then a failing return that keeps them
C35_Witness ==
    /\ Done /\ HasError
    /\ ArtifactKeys \subseteq DOMAIN artifacts


(***************************************************************************)
(* fetch: the request builders simple_poll_req_from_exec and               *)
(* simple_listen_req_from_exec, and fetch_send_raw up to the body it       *)
(* posts.  None models a panic (.expect on a missing member, cmds[0] on an *)
(* empty array, a panic while a command is signed).                        *)
(***************************************************************************)
\* faulty variant: the request keys are the hashes as they come
UniqueKeepingAll(arr) == {arr}

\* utils::unique: the elements of a HashSet collected, in the order the
\* iteration of the set happens to take
Unique(arr) ==
    LET elems == {arr[i] : i \in 1..Len(arr)} IN
    { s \in [1..Cardinality(elems) -> elems] : {s[i] : i \in DOMAIN s} = elems }

\* exec_msg.get("cmds").and_then(|v| v.as_array())
CmdsOf(exec_msg) ==
    IF IsSome(Get(exec_msg, "cmds")) /\ Unwrap(Get(exec_msg, "cmds"))[1] = "arr"
    THEN Some(Unwrap(Get(exec_msg, "cmds"))[2]) ELSE None

\* cmd.get("hash").and_then(|h| h.as_str())
CmdHash(cmd) == AndAsStr(Get(cmd, "hash"))

\* fetch::simple_poll_req_from_exec: the requests it may return, {None} when it panics
SimplePollReqFromExec(exec_msg) ==
    LET cmds == CmdsOf(exec_msg) IN
    IF cmds = None THEN {None}
    ELSE IF \E i \in 1..Len(Unwrap(cmds)) : CmdHash(Unwrap(cmds)[i]) = None THEN {None}
    ELSE { Some(JObj([requestKeys |-> JArr([i \in 1..Len(rks) |-> JStr(rks[i])])])) :
             rks \in Unique([i \in 1..Len(Unwrap(cmds)) |-> Unwrap(CmdHash(Unwrap(cmds)[i]))]) }

\* fetch::simple_listen_req_from_exec
SimpleListenReqFromExec(exec_msg) ==
    LET cmds == CmdsOf(exec_msg) IN
    IF cmds = None THEN None
    ELSE IF Len(Unwrap(cmds)) = 0 THEN None
    ELSE IF CmdHash(Unwrap(cmds)[1]) = None THEN None
    ELSE Some(JObj([listen |-> JStr(Unwrap(CmdHash(Unwrap(cmds)[1])))]))

\* "send_cmd.as_array().unwrap().iter().map(make_prepare_cmd).collect()"
PrepareEach(commands) ==
    IF \E i \in 1..Len(commands) : MakePrepareCmd(commands[i][2]) = None THEN None
    ELSE Some([i \in 1..Len(commands) |-> Unwrap(MakePrepareCmd(commands[i][2]))])

\* faulty variant: the entries of a prepared payload get the hash of their command
PreparedCmdsRehashed(value) ==
    IF CmdsOf(value) # None
    THEN Some([i \in 1..Len(Unwrap(CmdsOf(value))) |->
                 JObj(Put(Unwrap(CmdsOf(value))[i][2], "hash",
                          JStr(B64UrlEncodedHash(HashBin(Unwrap(CmdsOf(value))[i][2]["cmd"][2])))))])
    ELSE IF value[1] = "arr" THEN PrepareEach(value[2])
    ELSE PrepareEach(<<value>>)

\* fetch::fetch_send_raw, "let prepared_cmds: Vec<Value> = ..."
PreparedCmds(value) ==
    IF CmdsOf(value) # None THEN CmdsOf(value)
    ELSE IF value[1] = "arr" THEN PrepareEach(value[2])
    ELSE PrepareEach(<<value>>)

\* the members of the "cmds" array of a payload a caller brings: the hash
\* may be that of the command, that of another command, null, or absent
PayloadEntries ==
    { JObj((IF h = Absent THEN EmptyFields ELSE [hash |-> h])
           @@ [sigs |-> JArr(<<>>), cmd |-> JStr(<<"cmd-a">>)]) :
        h \in {Absent, JNull} \cup {JStr(B64UrlEncodedHash(HashBin(m))) : m \in Msgs} }
Payloads ==
    { JObj([cmds |-> JArr(entries)] @@ extra) :
        entries \in SeqsUpTo(PayloadEntries, MaxCmds),
        extra \in {EmptyFields, [debug |-> JNull]} }

\* unprepared commands: exec and cont, unsigned, signed with a key, and
\* with a key pair whose secret key is unusable
FetchCommands ==
    { JObj(base @@ k) :
        base \in {ExecCommand, ContCommand},
        k \in {EmptyFields,
               [keyPairs |-> <<JObj([publicKey |-> JStr("p1"), secretKey |-> JStr("s1")])>>],
               [keyPairs |-> <<JObj([publicKey |-> JStr("p1"), secretKey |-> JStr("")])>>]} }
\* a payload, one command, or an array of commands
FetchInputs ==
    Payloads \cup FetchCommands
    \cup { JArr(a) : a \in SeqsUpTo(FetchCommands, MaxCmds) }

\* what the fetch functions leave alone
fetchFrame == <<pc, cfg, network_id, envMaxTotal, key_pair, artifacts, attempt, elapsed,
                spv_elapsed, rk, pact_id, rk_complete, ready, obtained, failure,
                wellFormed, token_address, single_chain_id, parked, turn,
                cmd_string, key_pairs, sigs, signed, verified, send_cmd>>

FetchInit ==
    /\ TransferIdle
    /\ spc = "input"
    /\ send_cmd \in {Some(v) : v \in FetchInputs}
    /\ cmd_string = EmptyText
    /\ key_pairs = <<>>
    /\ sigs = None
    /\ signed = None
    /\ origin = "none"
    /\ verified = None

SimplePollReqStep ==
    /\ spc = "input"
    /\ \E req \in SimplePollReqFromExec(Unwrap(send_cmd)) :
          /\ result' = req
          /\ spc' = IF req = None THEN "panicked" ELSE "returned"
    /\ origin' = "simple_poll_req_from_exec"
    /\ NoIssue
    /\ UNCHANGED fetchFrame

SimpleListenReqStep ==
    /\ spc = "input"
    /\ result' = SimpleListenReqFromExec(Unwrap(send_cmd))
    /\ spc' = IF SimpleListenReqFromExec(Unwrap(send_cmd)) = None
              THEN "panicked" ELSE "returned"
    /\ origin' = "simple_listen_req_from_exec"
    /\ NoIssue
    /\ UNCHANGED fetchFrame

\* fetch_send_raw up to ".send()": the body is mk_public_send(prepared_cmds)
FetchSendRawStep ==
    /\ spc = "input"
    /\ IF PreparedCmds(Unwrap(send_cmd)) = None
       THEN spc' = "panicked" /\ NoIssue
       ELSE /\ Issue("send", SourceChain,
                     MkPublicSend(Unwrap(PreparedCmds(Unwrap(send_cmd)))), 1)
            /\ spc' = "posted"
    /\ origin' = "fetch_send_raw"
    /\ UNCHANGED <<result, fetchFrame>>

FetchNext ==
    \/ SimplePollReqStep
    \/ SimpleListenReqStep
    \/ FetchSendRawStep

FetchSpec == FetchInit /\ [][FetchNext]_vars


(***************************************************************************)
(* C36: the poll request that simple_poll_req_from_exec returns holds      *)
(* every command hash of the input exactly once: its requestKeys are the   *)
(* set of the input's hashes, without a duplicate.  The listen request     *)
(* that simple_listen_req_from_exec returns is for the hash of the first   *)
(* command.  Both return for every input whose commands carry a hash (the  *)
(* listen request needs a first command).                                  *)
(***************************************************************************)
\* the input of the running call and its commands, read from the input alone
InputValue == Unwrap(send_cmd)
InputCmds == InputValue[2]["cmds"][2]
HasCmds ==
    /\ InputValue[1] = "obj"
    /\ "cmds" \in DOMAIN InputValue[2]
    /\ InputValue[2]["cmds"][1] = "arr"
Hashed(cmd) == "hash" \in DOMAIN cmd[2] /\ cmd[2]["hash"][1] = "str"
AllHashed == HasCmds /\ \A i \in 1..Len(InputCmds) : Hashed(InputCmds[i])
InputHashes == { InputCmds[i][2]["hash"] : i \in 1..Len(InputCmds) }

ReturnedBy(fn) == origin = fn /\ spc = "returned"
PanickedIn(fn) == origin = fn /\ spc = "panicked"
RequestKeys == Unwrap(result)[2]["requestKeys"][2]

PollRequestExact ==
    ReturnedBy("simple_poll_req_from_exec") =>
        /\ AllHashed
        /\ DOMAIN Unwrap(result)[2] = {"requestKeys"}
        /\ { RequestKeys[i] : i \in 1..Len(RequestKeys) } = InputHashes
        /\ \A i, j \in 1..Len(RequestKeys) : RequestKeys[i] = RequestKeys[j] => i = j

ListenRequestOfFirst ==
    ReturnedBy("simple_listen_req_from_exec") =>
        /\ HasCmds /\ Len(InputCmds) > 0 /\ Hashed(InputCmds[1])
        /\ Unwrap(result) = JObj([listen |-> InputCmds[1][2]["hash"]])

RequestBuildersReturn ==
    /\ PanickedIn("simple_poll_req_from_exec") => ~AllHashed
    /\ PanickedIn("simple_listen_req_from_exec") =>
          ~(HasCmds /\ Len(InputCmds) > 0 /\ Hashed(InputCmds[1]))

C36_RequestKeysExact ==
    PollRequestExact /\ ListenRequestOfFirst /\ RequestBuildersReturn

\* three commands, two of them with the same hash: two request keys
C36_Witness ==
    /\ ReturnedBy("simple_poll_req_from_exec")
    /\ Len(InputCmds) = 3
    /\ Cardinality(InputHashes) = 2
    /\ Len(RequestKeys) = 2


(***************************************************************************)
(* C37: a prepared payload is submitted unchanged: when the value passed   *)
(* to send has a "cmds" array, the commands are posted exactly as given,   *)
(* neither built, hashed nor signed again.  An unprepared command, or an   *)
(* array of them, is prepared once per command: as a continuation when its *)
(* type is "cont", as an exec command otherwise.                           *)
(***************************************************************************)
Posted == origin = "fetch_send_raw" /\ spc = "posted"
PostedCmds == lastReq.body[2]["cmds"][2]

\* the unprepared commands of the input: the members of an array, or the value
InputCommands == IF InputValue[1] = "arr" THEN InputValue[2] ELSE <<InputValue>>
IsCont(command) == "type" \in DOMAIN command[2] /\ command[2]["type"] = "cont"
KeyPairCount(command) ==
    IF "keyPairs" \in DOMAIN command[2] THEN Len(command[2]["keyPairs"]) ELSE 0

\* entry is the prepared form of command: built from its members, with the
\* hash of the text built and one signature per key pair (the placeholder
\* of attach_sig when there is none)
PreparedFrom(entry, command) ==
    LET text == entry[2]["cmd"][2]
        built == JsonFromStr(text)
    IN /\ DOMAIN entry[2] = {"hash", "sigs", "cmd"}
       /\ entry[2]["hash"] = JStr(B64UrlEncodedHash(HashBin(text)))
       /\ Len(entry[2]["sigs"][2]) =
              IF KeyPairCount(command) = 0 THEN 1 ELSE KeyPairCount(command)
       /\ Len(built.signers) = KeyPairCount(command)
       /\ built.networkId = command[2]["networkId"]
       /\ built.meta = command[2]["meta"]
       /\ IF IsCont(command)
          THEN /\ DOMAIN built.payload = {"cont"}
               /\ built.payload.cont.pactId = command[2]["pactId"]
               /\ built.payload.cont.proof = command[2]["proof"]
          ELSE /\ DOMAIN built.payload = {"exec"}
               /\ built.payload.exec.code = command[2]["pactCode"]

PreparedPostedAsGiven ==
    (Posted /\ HasCmds) => lastReq.body = JObj([cmds |-> JArr(InputCmds)])

UnpreparedPreparedOnce ==
    (Posted /\ ~HasCmds) =>
        /\ DOMAIN lastReq.body[2] = {"cmds"}
        /\ Len(PostedCmds) = Len(InputCommands)
        /\ \A i \in 1..Len(InputCommands) : PreparedFrom(PostedCmds[i], InputCommands[i])

\* fetch_send_raw does not look into the commands of a prepared payload
PreparedNeverPanics == PanickedIn("fetch_send_raw") => ~HasCmds

C37_PreparedPayloadUnchanged ==
    PreparedPostedAsGiven /\ UnpreparedPreparedOnce /\ PreparedNeverPanics

\* a posted payload with an entry whose hash is not that of its command,
\* and one without a hash
C37_Witness ==
    /\ Posted /\ HasCmds
    /\ Len(InputCmds) = 3
    /\ \E i \in 1..3 : ~Hashed(InputCmds[i])
    /\ \E i \in 1..3 :
          /\ Hashed(InputCmds[i])
          /\ InputCmds[i][2]["hash"] # JStr(B64UrlEncodedHash(HashBin(InputCmds[i][2]["cmd"][2])))

\* an array of an exec and a cont command, posted as two prepared commands
ArrayPosted ==
    /\ Posted /\ InputValue[1] = "arr"
    /\ Len(InputCommands) = 2
    /\ ~IsCont(InputCommands[1]) /\ IsCont(InputCommands[2])
    /\ KeyPairCount(InputCommands[2]) = 1


(***************************************************************************)
(* C38: attach_sig returns a non-empty batch for every input, one          *)
(* placeholder for no keypair and one entry per keypair otherwise; every   *)
(* entry has a "sig" member and all entries carry the same hash.  Hence,   *)
(* on a batch of attach_sig, pull_check_hashs neither indexes an empty     *)
(* batch nor finds a mismatch, and filter_sig drops no entry.              *)
(***************************************************************************)
AttachSigReturns == FromAttachSig => IsSome(sigs) /\ spc # "panicked"

\* the batch attach_sig returned
BatchSound ==
    (FromAttachSig /\ IsSome(sigs)) =>
        /\ Len(Unwrap(sigs)) = IF key_pairs = <<>> THEN 1 ELSE Len(key_pairs)
        /\ \A i \in 1..Len(Unwrap(sigs)) :
              /\ "sig" \in DOMAIN Unwrap(sigs)[i][2]
              /\ Unwrap(sigs)[i][2]["hash"] = CommandHash

\* mk_single_cmd on the batch attach_sig returned
AssemblyOfBatch ==
    (FromAttachSig /\ IsSome(sigs)) =>
        /\ spc # "panicked"
        /\ spc = "made" =>
              /\ IsSome(signed)
              /\ SignedHash = CommandHash
              /\ Len(SignedSigs) = Len(Unwrap(sigs))

C38_BatchOfAttachSigSound == AttachSigReturns /\ BatchSound /\ AssemblyOfBatch

====
